---- MODULE Spec2Model ----
(***************************************************************************)
(* A model of the job control of bq/bigquery_client.py: StartJob,          *)
(* RunJobSynchronously, ExecuteJob, WaitJob / PollJob, the wait printers,  *)
(* and the error conversion they rest on (BigqueryHttp.execute,            *)
(* RaiseError, RaiseIfJobError, BigqueryError.Create).                     *)
(*                                                                         *)
(* Python's None and an absent dictionary key are the empty sequence <<>>, *)
(* a present value v is <<v>>.                                             *)
(*                                                                         *)
(* Besides the job control (Spec, SpecWait) the module has the error       *)
(* classifier on its own (SpecErr) and the references with their resolvers *)
(* (SpecRef). There the identifiers and the fields of the references are   *)
(* sequences of characters, and a message is the sequence of its pieces.   *)
(* The other specifications take one operation each and say in their own   *)
(* comment what the variables hold: two calls of WaitJob at once           *)
(* (SpecPair), WaitJob with a finite wait under fairness (SpecLive),       *)
(* ProcessSources (SpecSrc), StartJob and the configuration it is given    *)
(* (SpecCfg), ReadTableRows (SpecRows).                                    *)
(*                                                                         *)
(* Time is counted in ticks, TicksPerSecond to the second, from WaitJob's  *)
(* start_time: time.sleep(1) takes TicksPerSecond ticks, a request to the  *)
(* server takes 0..MaxPollDur ticks.                                       *)
(***************************************************************************)
EXTENDS Integers, Sequences, FiniteSets, TLC

VARIABLES
  self,        \* the BigqueryClient: project_id, sync, wait_printer_factory
  server_job,  \* the job resource held by the server: <<>> or <<job>>
  requests,    \* what the server received: inserts, polls, insert_project
  call,        \* the running call of the client: <<>> or <<[op, ...]>>
  pc,          \* the position of the running call
  result,      \* StartJob's result / RunJobSynchronously's result: <<>> or <<job>>
  outcome,     \* how the call ended: <<>>, <<[type |-> "return", ...]>>, <<[type |-> "raise", ...]>>
  now,         \* ticks since WaitJob's start_time
  wj,          \* WaitJob's locals
  printer,     \* the wait printer of the running WaitJob: <<>> or <<[cls, ...]>>
  io,          \* what the printer was asked and what it wrote
  hist         \* history of the running WaitJob: the results of its first MaxFetched
               \* polls, the result of its last poll, the sleeps since its last poll

vars == <<self, server_job, requests, call, pc, result, outcome, now, wj,
          printer, io, hist>>

----------------------------------------------------------------------------
(* Bounds of the model. *)

\* Seconds of WaitJob explored when wait is sys.maxint.
MaxTime == 3
\* A request to the server takes 0..MaxPollDur ticks.
MaxPollDur == 1
\* Resolution of the clock.
TicksPerSecond == 2
\* Poll results remembered in hist.fetched.
MaxFetched == 3
\* The wait used to walk the whole backoff schedule.
LongWait == 200

\* sys.maxint, WaitJob's default wait.
maxint == 2147483647

None == <<>>
Some(v) == <<v>>
Has(o) == Len(o) > 0
Get(o) == o[1]

----------------------------------------------------------------------------
(* References *)

JobReference_Create(projectId, jobId) ==
  [typename |-> "job", projectId |-> projectId, jobId |-> jobId]

\* The server's job resources carry 'kind': 'bigquery#job' and a jobReference,
\* from which the reference is created.
ConstructObjectReference(object_info) ==
  JobReference_Create(object_info.jobReference.projectId,
                      object_info.jobReference.jobId)

\* The identifiers that are parsed, and the fields of the references made
\* from them, are sequences of characters. The characters used: a word
\* character of the identifiers, the two separators, and the word
\* characters of the client's own project and dataset ids.
Chars == {"a", ".", ":"}

\* \w
IsWord(c) == c \notin {".", ":", "-"}

required_fields(typename) ==
  CASE typename = "job" -> {"projectId", "jobId"}
    [] typename = "project" -> {"projectId"}
    [] typename = "dataset" -> {"projectId", "datasetId"}
    [] typename = "table" -> {"projectId", "datasetId", "tableId"}

\* Mutant of Reference_Create: only absent fields are refused.
Reference_Create_EmptyAllowed(typename, kwds) ==
  LET args == [k \in DOMAIN kwds \cap required_fields(typename) |-> kwds[k]]
  IN  IF \E name \in required_fields(typename) : name \notin DOMAIN args
        THEN [ok |-> FALSE, error |-> [kind |-> "ValueError"]]
        ELSE [ok |-> TRUE,
              value |-> [name \in required_fields(typename) \cup {"typename"} |->
                           IF name = "typename" THEN typename ELSE args[name]]]

\* cls.Create(**kwds) and Reference.__init__: kwds is a function from field
\* names to values. The reference is the record of the class's typename and
\* of its required fields.
Reference_Create(typename, kwds) ==
  LET args == [k \in DOMAIN kwds \cap required_fields(typename) |-> kwds[k]]
  IN  IF \E name \in required_fields(typename) :
           name \notin DOMAIN args \/ args[name] = <<>>
        THEN [ok |-> FALSE, error |-> [kind |-> "ValueError"]]
        ELSE [ok |-> TRUE,
              value |-> [name \in required_fields(typename) \cup {"typename"} |->
                           IF name = "typename" THEN typename ELSE args[name]]]

\* dict(ref): the required fields of the reference.
Reference_dict(ref) == [name \in required_fields(ref.typename) |-> ref[name]]

\* Reference.__eq__(a, b)
Reference_eq(a, b) ==
  LET d == Reference_dict(b)
  IN  \A name \in required_fields(a.typename) :
        a[name] = (IF name \in DOMAIN d THEN d[name] ELSE <<>>)

\* Reference.__str__: _format_str % dict(self)
Reference_str(ref) ==
  CASE ref.typename = "job" -> ref.projectId \o <<":">> \o ref.jobId
    [] ref.typename = "project" -> ref.projectId
    [] ref.typename = "dataset" -> ref.projectId \o <<":">> \o ref.datasetId
    [] ref.typename = "table" ->
         ref.projectId \o <<":">> \o ref.datasetId \o <<".">> \o ref.tableId

\* The first and the last index of c in s, 0 if there is none.
find(s, c) ==
  IF \E i \in 1..Len(s) : s[i] = c
    THEN CHOOSE i \in 1..Len(s) : s[i] = c /\ \A j \in 1..(i - 1) : s[j] # c
    ELSE 0

rfind(s, c) ==
  IF \E i \in 1..Len(s) : s[i] = c
    THEN CHOOSE i \in 1..Len(s) : s[i] = c /\ \A j \in (i + 1)..Len(s) : s[j] # c
    ELSE 0

\* s.partition(c) and s.rpartition(c)
partition(s, c) ==
  LET i == find(s, c)
  IN  IF i = 0 THEN <<s, <<>>, <<>>>>
      ELSE <<SubSeq(s, 1, i - 1), <<c>>, SubSeq(s, i + 1, Len(s))>>

rpartition(s, c) ==
  LET i == rfind(s, c)
  IN  IF i = 0 THEN << <<>>, <<>>, s >>
      ELSE <<SubSeq(s, 1, i - 1), <<c>>, SubSeq(s, i + 1, Len(s))>>

\* Mutant of IsLoneProject: no identifier is taken for a lone project.
IsLoneProject_Never(identifier) == FALSE

\* re.search('^\w[\w.]*\.[\w.]+:\w[\w\d_-]*:?$', identifier): up to the first
\* colon, a word character, then word characters and dots with a dot that
\* is not the last of them; after it, a word character and then word
\* characters and hyphens, up to the end or to a colon that ends the
\* identifier.
IsLoneProject(identifier) ==
  LET i == find(identifier, ":")
      n == Len(identifier)
  IN  /\ i >= 4
      /\ IsWord(identifier[1])
      /\ \A k \in 1..(i - 1) : IsWord(identifier[k]) \/ identifier[k] = "."
      /\ \E k \in 2..(i - 2) : identifier[k] = "."
      /\ \E e \in {n - 1, n} :
           /\ e > i
           /\ e = n - 1 => identifier[n] = ":"
           /\ IsWord(identifier[i + 1])
           /\ \A k \in (i + 1)..e : IsWord(identifier[k]) \/ identifier[k] = "-"

\* Mutant of ParseIdentifier: the rest is always split at its last dot.
ParseIdentifier_LastDot(identifier) ==
  IF IsLoneProject(identifier) THEN <<identifier, <<>>, <<>>>>
  ELSE LET pr == rpartition(identifier, ":")
           dt == rpartition(pr[3], ".")
       IN  <<pr[1], dt[1], dt[3]>>

\* Mutant of ParseIdentifier: the project id ends at the first colon.
ParseIdentifier_FirstColon(identifier) ==
  IF IsLoneProject(identifier) THEN <<identifier, <<>>, <<>>>>
  ELSE LET pr == partition(identifier, ":")
           project_id == IF pr[2] = <<>> THEN <<>> ELSE pr[1]
           rest == IF pr[2] = <<>> THEN pr[1] ELSE pr[3]
           dt == IF project_id # <<>> THEN partition(rest, ".")
                 ELSE rpartition(rest, ".")
       IN  <<project_id, dt[1], dt[3]>>

\* _ParseIdentifier(identifier): <<project_id, dataset_id, table_id>>
ParseIdentifier(identifier) ==
  IF IsLoneProject(identifier) THEN <<identifier, <<>>, <<>>>>
  ELSE LET pr == rpartition(identifier, ":")
           project_id == pr[1]
           dt == IF project_id # <<>> THEN partition(pr[3], ".")
                 ELSE rpartition(pr[3], ".")
       IN  <<project_id, dt[1], dt[3]>>

\* a or b, for strings
Or(a, b) == IF a # <<>> THEN a ELSE b

Failed(kind) == [ok |-> FALSE, error |-> [kind |-> kind]]

\* Mutant of GetProjectReference: the table part comes before the project
\* part.
GetProjectReference_TableFirst(identifier) ==
  LET parsed == ParseIdentifier(identifier)
      project_id == Or(parsed[3], Or(parsed[1], self.project_id))
      created == Reference_Create("project", [projectId |-> project_id])
  IN  IF parsed[2] = <<>> /\ project_id # <<>> /\ created.ok THEN created
      ELSE Failed("BigqueryClientError")

GetProjectReference(identifier) ==
  LET parsed == ParseIdentifier(identifier)
      project_id == Or(parsed[1], Or(parsed[3], self.project_id))
      created == Reference_Create("project", [projectId |-> project_id])
  IN  IF parsed[2] = <<>> /\ project_id # <<>> /\ created.ok THEN created
      ELSE Failed("BigqueryClientError")

\* Mutant of GetDatasetReference: a table part alone decides for the first
\* shape.
GetDatasetReference_AnyTablePart(identifier) ==
  LET parsed == ParseIdentifier(identifier)
      project_id == parsed[1]
      dataset_id == parsed[2]
      table_id == parsed[3]
      kwds == IF table_id # <<>>
                THEN Some([projectId |-> self.project_id, datasetId |-> table_id])
              ELSE IF project_id # <<>> /\ dataset_id # <<>> /\ table_id = <<>>
                THEN Some([projectId |-> project_id, datasetId |-> dataset_id])
              ELSE IF identifier = <<>>
                THEN Some([projectId |-> self.project_id,
                           datasetId |-> self.dataset_id])
              ELSE None
  IN  IF Has(kwds) /\ Reference_Create("dataset", Get(kwds)).ok
        THEN Reference_Create("dataset", Get(kwds))
        ELSE Failed("BigqueryError")

GetDatasetReference(identifier) ==
  LET parsed == ParseIdentifier(identifier)
      project_id == parsed[1]
      dataset_id == parsed[2]
      table_id == parsed[3]
      kwds == IF table_id # <<>> /\ project_id = <<>> /\ dataset_id = <<>>
                THEN Some([projectId |-> self.project_id, datasetId |-> table_id])
              ELSE IF project_id # <<>> /\ dataset_id # <<>> /\ table_id = <<>>
                THEN Some([projectId |-> project_id, datasetId |-> dataset_id])
              ELSE IF identifier = <<>>
                THEN Some([projectId |-> self.project_id,
                           datasetId |-> self.dataset_id])
              ELSE None
  IN  IF Has(kwds) /\ Reference_Create("dataset", Get(kwds)).ok
        THEN Reference_Create("dataset", Get(kwds))
        ELSE Failed("BigqueryError")

\* Mutant of GetTableReference: the client's own ids come first.
GetTableReference_AmbientFirst(identifier) ==
  LET parsed == ParseIdentifier(identifier)
      created == Reference_Create("table",
                   [projectId |-> Or(self.project_id, parsed[1]),
                    datasetId |-> Or(self.dataset_id, parsed[2]),
                    tableId |-> parsed[3]])
  IN  IF created.ok THEN created ELSE Failed("BigqueryError")

GetTableReference(identifier) ==
  LET parsed == ParseIdentifier(identifier)
      created == Reference_Create("table",
                   [projectId |-> Or(parsed[1], self.project_id),
                    datasetId |-> Or(parsed[2], self.dataset_id),
                    tableId |-> parsed[3]])
  IN  IF created.ok THEN created ELSE Failed("BigqueryError")

\* Mutant of GetJobReference: the empty identifier is the job named by the
\* client's dataset id.
GetJobReference_EmptyIsAmbient(identifier) ==
  LET parsed == ParseIdentifier(identifier)
      project_id == parsed[1]
      dataset_id == parsed[2]
      table_id == parsed[3]
      kwds == IF table_id # <<>> /\ project_id = <<>> /\ dataset_id = <<>>
                THEN Some([projectId |-> self.project_id, jobId |-> table_id])
              ELSE IF project_id # <<>> /\ dataset_id # <<>> /\ table_id = <<>>
                THEN Some([projectId |-> project_id, jobId |-> dataset_id])
              ELSE IF identifier = <<>>
                THEN Some([projectId |-> self.project_id, jobId |-> self.dataset_id])
              ELSE None
  IN  IF Has(kwds) /\ Reference_Create("job", Get(kwds)).ok
        THEN Reference_Create("job", Get(kwds))
        ELSE Failed("BigqueryError")

GetJobReference(identifier) ==
  LET parsed == ParseIdentifier(identifier)
      project_id == parsed[1]
      dataset_id == parsed[2]
      table_id == parsed[3]
      kwds == IF table_id # <<>> /\ project_id = <<>> /\ dataset_id = <<>>
                THEN Some([projectId |-> self.project_id, jobId |-> table_id])
              ELSE IF project_id # <<>> /\ dataset_id # <<>> /\ table_id = <<>>
                THEN Some([projectId |-> project_id, jobId |-> dataset_id])
              ELSE None
  IN  IF Has(kwds) /\ Reference_Create("job", Get(kwds)).ok
        THEN Reference_Create("job", Get(kwds))
        ELSE Failed("BigqueryError")

----------------------------------------------------------------------------
(* Errors *)

\* Mutant of ReasonKind: 'duplicate' is read as 'notFound'.
ReasonKind_DuplicateAsNotFound(reason) ==
  CASE reason \in {"notFound", "duplicate"} -> "BigqueryNotFoundError"
    [] reason = "accessDenied" -> "BigqueryAccessDeniedError"
    [] reason = "invalidQuery" -> "BigqueryInvalidQueryError"
    [] reason = "termsOfServiceNotAccepted" -> "BigqueryTermsOfServiceError"
    [] OTHER -> "BigqueryServiceError"

ReasonKind(reason) ==
  CASE reason = "notFound" -> "BigqueryNotFoundError"
    [] reason = "duplicate" -> "BigqueryDuplicateError"
    [] reason = "accessDenied" -> "BigqueryAccessDeniedError"
    [] reason = "invalidQuery" -> "BigqueryInvalidQueryError"
    [] reason = "termsOfServiceNotAccepted" -> "BigqueryTermsOfServiceError"
    [] OTHER -> "BigqueryServiceError"

\* The class an error class is derived from.
Base(kind) ==
  CASE kind = "BigqueryTermsOfServiceError" -> "BigqueryAccessDeniedError"
    [] kind \in {"BigqueryNotFoundError", "BigqueryDuplicateError",
                 "BigqueryAccessDeniedError", "BigqueryInvalidQueryError"} ->
         "BigqueryServiceError"
    [] kind \in {"BigqueryCommunicationError", "BigqueryInterfaceError",
                 "BigqueryServiceError", "BigqueryClientError"} -> "BigqueryError"
    [] kind \in {"BigqueryClientConfigurationError", "BigquerySchemaError"} ->
         "BigqueryClientError"
    [] OTHER -> "Exception"

RECURSIVE isinstance(_, _)
isinstance(kind, cls) ==
  \/ kind = cls
  \/ kind # "Exception" /\ isinstance(Base(kind), cls)

\* Mutant of GetReference: the dataset is tried before the table.
GetReference_DatasetFirst(identifier) ==
  LET t == GetTableReference(identifier)
      d == GetDatasetReference(identifier)
      p == GetProjectReference(identifier)
  IN  IF d.ok \/ ~isinstance(d.error.kind, "BigqueryError") THEN d
      ELSE IF t.ok \/ ~isinstance(t.error.kind, "BigqueryError") THEN t
      ELSE IF p.ok \/ ~isinstance(p.error.kind, "BigqueryError") THEN p
      ELSE Failed("BigqueryError")

\* GetReference(identifier): each resolver is tried in turn, and what it
\* raises is passed over if it is a BigqueryError.
GetReference(identifier) ==
  LET t == GetTableReference(identifier)
      d == GetDatasetReference(identifier)
      p == GetProjectReference(identifier)
  IN  IF t.ok \/ ~isinstance(t.error.kind, "BigqueryError") THEN t
      ELSE IF d.ok \/ ~isinstance(d.error.kind, "BigqueryError") THEN d
      ELSE IF p.ok \/ ~isinstance(p.error.kind, "BigqueryError") THEN p
      ELSE Failed("BigqueryError")

\* A text is the sequence of its pieces; the empty pieces do not show.
Text(pieces) == SelectSeq(pieces, LAMBDA t : t # "")

\* repr(job_ref): "%s '%s'" % (typename, '%(projectId)s:%(jobId)s')
JobReference_repr(job_ref) ==
  <<job_ref.typename, " '", job_ref.projectId, ":", job_ref.jobId, "'">>

\* textwrap.fill(text, initial_indent=' - ', subsequent_indent='   ') of a
\* text of one word: nothing for the empty text.
fill(text) == IF text = "" THEN <<>> ELSE <<" - ", text>>

\* sep.join(texts)
RECURSIVE join(_, _)
join(sep, texts) ==
  IF texts = <<>> THEN <<>>
  ELSE IF Len(texts) = 1 THEN texts[1]
  ELSE texts[1] \o <<sep>> \o join(sep, Tail(texts))

\* Mutant of Create: the primary error is not taken out of error_ls.
Create_AllErrors(error, server_error, error_ls, job_ref) ==
  LET reason == error.reason
      first == IF Has(job_ref)
                 THEN Some(<<"Error processing ">> \o JobReference_repr(Get(job_ref))
                           \o <<": ", IF Has(error.message) THEN Get(error.message)
                                      ELSE "None">>)
               ELSE IF Has(error.message) THEN Some(<<Get(error.message)>>)
               ELSE None
      new_errors == error_ls
      details == <<"\nFailure details:\n">> \o
                 join("\n", [i \in 1..Len(new_errors) |->
                               fill(IF Has(new_errors[i].message)
                                      THEN Get(new_errors[i].message) ELSE "")])
      message == IF new_errors # <<>> THEN Text(Get(first) \o details)
                 ELSE IF Has(first) THEN Text(Get(first))
                 ELSE <<>>
  IN  IF new_errors # <<>> /\ ~Has(first)
        THEN [kind |-> "TypeError"]
      ELSE IF ~Has(reason) \/ Get(reason) = "" \/ message = <<>>
        THEN [kind |-> "BigqueryInterfaceError", server_error |-> server_error]
      ELSE [kind |-> ReasonKind(Get(reason)), message |-> message,
            error |-> error, error_list |-> error_ls, job_ref |-> job_ref]

\* error: [reason |-> <<>> or <<r>>, message |-> <<>> or <<m>>]; error_ls:
\* a sequence of such errors. The result is the error returned, or the
\* TypeError of None += str.
Create(error, server_error, error_ls, job_ref) ==
  LET reason == error.reason
      first == IF Has(job_ref)
                 THEN Some(<<"Error processing ">> \o JobReference_repr(Get(job_ref))
                           \o <<": ", IF Has(error.message) THEN Get(error.message)
                                      ELSE "None">>)
               ELSE IF Has(error.message) THEN Some(<<Get(error.message)>>)
               ELSE None
      new_errors == SelectSeq(error_ls, LAMBDA err : err # error)
      details == <<"\nFailure details:\n">> \o
                 join("\n", [i \in 1..Len(new_errors) |->
                               fill(IF Has(new_errors[i].message)
                                      THEN Get(new_errors[i].message) ELSE "")])
      message == IF new_errors # <<>> THEN Text(Get(first) \o details)
                 ELSE IF Has(first) THEN Text(Get(first))
                 ELSE <<>>
  IN  IF new_errors # <<>> /\ ~Has(first)
        THEN [kind |-> "TypeError"]
      ELSE IF ~Has(reason) \/ Get(reason) = "" \/ message = <<>>
        THEN [kind |-> "BigqueryInterfaceError", server_error |-> server_error]
      ELSE [kind |-> ReasonKind(Get(reason)), message |-> message,
            error |-> error, error_list |-> error_ls, job_ref |-> job_ref]

\* Mutant of RaiseError: the 'error' object itself is taken for the error.
RaiseError_ErrorObject(json_result) ==
  Create([reason |-> None, message |-> None], json_result, <<>>, None)

RaiseError(json_result) ==
  LET error == IF Has(json_result.error) /\ Has(Get(json_result.error).errors)
                 THEN Get(Get(json_result.error).errors)[1]
                 ELSE [reason |-> None, message |-> None]
  IN  Create(error, json_result, <<>>, None)

\* Mutant of IsFailedJob: 'errorResult' looked up in the job, where it never is.
IsFailedJob_TopLevel(job) == FALSE

IsFailedJob(job) == Has(job.status.errorResult)

\* Mutant of JobError: the job reference is not passed on.
JobError_NoJobRef(job) ==
  Create(Get(job.status.errorResult), Get(job.status.errorResult),
         job.status.errors, None)

\* The error RaiseIfJobError raises for a failed job.
JobError(job) ==
  Create(Get(job.status.errorResult), Get(job.status.errorResult),
         job.status.errors, Some(ConstructObjectReference(job)))

\* BigqueryHttp.execute: the transport's answer resp is
\*   [type |-> "ok", body |-> job], or
\*   [type |-> "HttpError", json |-> TRUE, content |-> json_result], or
\*   [type |-> "HttpError", json |-> FALSE].
\* The result is [ok |-> TRUE, value |-> job] or [ok |-> FALSE, error |-> e].
execute(resp) ==
  IF resp.type = "ok" THEN [ok |-> TRUE, value |-> resp.body]
  ELSE IF resp.json THEN [ok |-> FALSE, error |-> RaiseError(resp.content)]
  ELSE [ok |-> FALSE, error |-> [kind |-> "BigqueryCommunicationError"]]

----------------------------------------------------------------------------
(* The server, as the client sees it *)

States == <<"PENDING", "RUNNING", "DONE">>

ErrorResults ==
  { [reason |-> Some("invalidQuery"), message |-> Some("m")] }

Job(projectId, jobId, state, errorResult) ==
  [ kind |-> "bigquery#job",
    jobReference |-> [projectId |-> projectId, jobId |-> jobId],
    status |-> [ state |-> state, errorResult |-> errorResult,
                 errors |-> IF Has(errorResult) THEN <<Get(errorResult)>> ELSE <<>> ] ]

\* The statuses a job resource can carry: errorResult only when DONE.
JobStatuses ==
  { <<s, None>> : s \in {"PENDING", "RUNNING", "DONE"} }
    \cup { <<"DONE", Some(e)>> : e \in ErrorResults }

\* A failed request: a JSON error body, or another HTTP failure.
Failures ==
  { [type |-> "HttpError", json |-> FALSE],
    [type |-> "HttpError", json |-> TRUE,
     content |-> [error |-> Some([errors |-> Some(<<[reason |-> Some("backendError"),
                                                      message |-> Some("m")]>>)])]] }

NotFound ==
  [type |-> "HttpError", json |-> TRUE,
   content |-> [error |-> Some([errors |-> Some(<<[reason |-> Some("notFound"),
                                                    message |-> Some("m")]>>)])]]

\* jobs.get of the polled job.
GetResponses ==
  (IF Has(server_job) THEN { [type |-> "ok", body |-> Get(server_job)] }
   ELSE { NotFound }) \cup Failures

StateRank(s) == CASE s = "PENDING" -> 1 [] s = "RUNNING" -> 2 [] s = "DONE" -> 3

\* The job moves on: PENDING, RUNNING, DONE, never back.
ServerStep ==
  /\ Has(server_job)
  /\ Get(server_job).status.state # "DONE"
  /\ \E st \in JobStatuses :
       /\ StateRank(st[1]) > StateRank(Get(server_job).status.state)
       /\ server_job' = Some(Job(Get(server_job).jobReference.projectId,
                                 Get(server_job).jobReference.jobId, st[1], st[2]))
  /\ UNCHANGED <<self, requests, call, pc, result, outcome, now, wj, printer,
                 io, hist>>

----------------------------------------------------------------------------
(* Wait printers *)

WaitPrinterClasses ==
  {"QuietWaitPrinter", "VerboseWaitPrinter", "TransitionWaitPrinter"}

\* A printer as created by its factory: the class attributes.
NewPrinter(cls) ==
  [cls |-> cls, print_on_done |-> FALSE, _previous_status |-> None]

QuietWaitPrinter_Print(p, status) ==
  [printer |-> p, line |-> None]

VerboseWaitPrinter_Print(p, status) ==
  [printer |-> [p EXCEPT !.print_on_done = TRUE], line |-> Some(status)]

\* Mutant of TransitionWaitPrinter_Print: _previous_status is not updated.
TransitionWaitPrinter_Print_NoUpdate(p, status) ==
  IF Some(status) # p._previous_status
    THEN VerboseWaitPrinter_Print(p, status)
    ELSE [printer |-> p, line |-> None]

TransitionWaitPrinter_Print(p, status) ==
  IF Some(status) # p._previous_status
    THEN VerboseWaitPrinter_Print([p EXCEPT !._previous_status = Some(status)], status)
    ELSE [printer |-> p, line |-> None]

WaitPrinter_Print(p, status) ==
  CASE p.cls = "QuietWaitPrinter" -> QuietWaitPrinter_Print(p, status)
    [] p.cls = "VerboseWaitPrinter" -> VerboseWaitPrinter_Print(p, status)
    [] p.cls = "TransitionWaitPrinter" -> TransitionWaitPrinter_Print(p, status)

\* What Done writes: a newline if a line was printed.
WaitPrinterHelper_Done(p) == p.print_on_done

\* io after printer.Print(job_id, wait_time, status).
IoPrint(job_id, wait_time, status) ==
  LET r == WaitPrinter_Print(Get(printer), status)
  IN  [io EXCEPT !.print_calls = @ + 1,
                 !.last_call = Some([job_id |-> job_id, wait_time |-> wait_time,
                                     status |-> status]),
                 !.lines = IF Has(r.line) THEN @ + 1 ELSE @,
                 !.last_line = IF Has(r.line) THEN r.line ELSE @,
                 !.repeated = @ \/ (Has(r.line) /\ r.line = io.last_line),
                 !.print_after_done = @ \/ io.done_calls > 0]

IoDone ==
  [io EXCEPT !.done_calls = @ + 1,
             !.newlines = IF WaitPrinterHelper_Done(Get(printer)) THEN @ + 1 ELSE @]

NoIo ==
  [print_calls |-> 0, last_call |-> None, lines |-> 0, last_line |-> None,
   repeated |-> FALSE, print_after_done |-> FALSE, done_calls |-> 0,
   newlines |-> 0]

----------------------------------------------------------------------------
(* The backoff schedule of WaitJob *)

repeat(x, n) == [i \in 1..n |-> x]

RECURSIVE xrange(_, _, _)
xrange(start, stop, step) ==
  IF start >= stop THEN <<>> ELSE <<start>> \o xrange(start + step, stop, step)

\* Mutant of waits_head: the second part starts at 3.
waits_head_From3 == repeat(1, 8) \o xrange(3, 30, 3)

\* The finite part of itertools.chain(repeat(1, 8), xrange(2, 30, 3), repeat(30)).
waits_head == repeat(1, 8) \o xrange(2, 30, 3)

\* waits.next() when next() was called pos times before.
waits_next(pos) ==
  IF pos + 1 <= Len(waits_head) THEN waits_head[pos + 1] ELSE 30

----------------------------------------------------------------------------
(* The client *)

ProjectIds == {"", "p"}

NoHist == [fetched |-> <<>>, last_poll |-> None, slept |-> 0]

Init ==
  /\ self \in [project_id : ProjectIds, sync : BOOLEAN,
               wait_printer_factory : {"TransitionWaitPrinter", "VerboseWaitPrinter"}]
  /\ server_job = None
  /\ requests = [inserts |-> 0, polls |-> 0, insert_project |-> None]
  /\ call = None
  /\ pc = "idle"
  /\ result = None
  /\ outcome = None
  /\ now = 0
  /\ wj = None
  /\ printer = None
  /\ io = NoIo
  /\ hist = NoHist

Raise(error) == Some([type |-> "raise", error |-> error])
Return(value) == Some([type |-> "return", value |-> value])

\* Mutant of ExecuteJob: sync = sync or self.sync.
ExecuteJob_SyncOrDefault(sync_arg, project_id) ==
  /\ pc = "idle"
  /\ call' = Some([op |-> "ExecuteJob", sync_arg |-> sync_arg,
                   sync |-> IF Has(sync_arg) /\ Get(sync_arg) THEN TRUE ELSE self.sync,
                   project_id |-> project_id])
  /\ pc' = "StartJob"
  /\ UNCHANGED <<self, server_job, requests, result, outcome, now, wj, printer,
                 io, hist>>

\* ExecuteJob(configuration, sync=sync_arg, project_id=project_id):
\* sync_arg is None, Some(TRUE) or Some(FALSE).
ExecuteJob(sync_arg, project_id) ==
  /\ pc = "idle"
  /\ call' = Some([op |-> "ExecuteJob", sync_arg |-> sync_arg,
                   sync |-> IF Has(sync_arg) THEN Get(sync_arg) ELSE self.sync,
                   project_id |-> project_id])
  /\ pc' = "StartJob"
  /\ UNCHANGED <<self, server_job, requests, result, outcome, now, wj, printer,
                 io, hist>>

RunJobSynchronously(project_id) ==
  /\ pc = "idle"
  /\ call' = Some([op |-> "RunJobSynchronously", sync_arg |-> None, sync |-> TRUE,
                   project_id |-> project_id])
  /\ pc' = "StartJob"
  /\ UNCHANGED <<self, server_job, requests, result, outcome, now, wj, printer,
                 io, hist>>

\* A direct call of StartJob(configuration, project_id=project_id).
CallStartJob(project_id) ==
  /\ pc = "idle"
  /\ call' = Some([op |-> "StartJob", sync_arg |-> None, sync |-> FALSE,
                   project_id |-> project_id])
  /\ pc' = "StartJob"
  /\ UNCHANGED <<self, server_job, requests, result, outcome, now, wj, printer,
                 io, hist>>

\* Mutant of StartJobProject: self.project_id or project_id.
StartJobProject_DefaultFirst(project_id) ==
  IF self.project_id # "" THEN self.project_id
  ELSE IF Has(project_id) THEN Get(project_id) ELSE ""

\* project_id or self.project_id
StartJobProject(project_id) ==
  IF Has(project_id) /\ Get(project_id) # "" THEN Get(project_id)
  ELSE self.project_id

\* jobs.insert under project: the server creates the job, in any status, and
\* answers with it, or the request fails and no job is created.
InsertResponses(project) ==
  { [type |-> "ok", body |-> Job(project, "j1", st[1], st[2])] : st \in JobStatuses }
    \cup Failures

\* WaitJob's locals at the head of its loop.
WaitJobLocals(job_reference, status, wait) ==
  [job_reference |-> job_reference, status |-> status, wait |-> wait,
   job |-> None, waits_pos |-> 0, tick_left |-> 0,
   current_wait |-> 0, current_status |-> "UNKNOWN"]

\* StartJob, and what its caller does with the result up to the next request:
\* StartJob's caller returns it, ExecuteJob (sync false) goes on to
\* RaiseIfJobError, RunJobSynchronously enters WaitJob.
StartJob ==
  /\ pc = "StartJob"
  /\ LET project_id == StartJobProject(Get(call).project_id)
     IN  IF project_id = ""
           THEN /\ outcome' = Raise([kind |-> "BigqueryClientConfigurationError"])
                /\ pc' = "raised"
                /\ UNCHANGED <<server_job, requests, result, now, wj, printer>>
           ELSE \E resp \in InsertResponses(project_id) :
                  LET r == execute(resp)
                  IN  /\ requests' = [requests EXCEPT !.inserts = @ + 1,
                                        !.insert_project = Some(project_id)]
                      /\ IF r.ok
                           THEN /\ server_job' = Some(r.value)
                                /\ result' = Some(r.value)
                                /\ IF Get(call).op = "StartJob"
                                     THEN /\ outcome' = Return(r.value)
                                          /\ pc' = "returned"
                                          /\ UNCHANGED <<now, wj, printer>>
                                   ELSE IF ~Get(call).sync
                                     THEN /\ pc' = "RaiseIfJobError"
                                          /\ UNCHANGED <<outcome, now, wj, printer>>
                                   ELSE /\ pc' = "WaitJob"
                                        /\ now' = 0
                                        /\ wj' = Some(WaitJobLocals(
                                                   ConstructObjectReference(r.value),
                                                   "DONE", maxint))
                                        /\ printer' = Some(NewPrinter(self.wait_printer_factory))
                                        /\ UNCHANGED outcome
                           ELSE /\ outcome' = Raise(r.error)
                                /\ pc' = "raised"
                                /\ UNCHANGED <<server_job, result, now, wj, printer>>
  /\ UNCHANGED <<self, call, io, hist>>

\* A direct call of WaitJob for the job an earlier StartJob returned:
\* WaitJob(job_reference, status=status, wait=wait,
\*         wait_printer_factory=factory), factory None or Some(class).
WaitJob(status, wait, factory) ==
  /\ pc = "returned"
  /\ Get(call).op = "StartJob"
  /\ call' = Some([op |-> "WaitJob", sync_arg |-> None, sync |-> FALSE,
                   project_id |-> None])
  /\ outcome' = None
  /\ pc' = "WaitJob"
  /\ now' = 0
  /\ wj' = Some(WaitJobLocals(ConstructObjectReference(Get(result)), status, wait))
  /\ printer' = Some(NewPrinter(IF Has(factory) THEN Get(factory)
                                ELSE self.wait_printer_factory))
  /\ UNCHANGED <<self, server_job, requests, result, io, hist>>

\* Mutant of WithinWait: current_wait < wait.
WithinWait_Strict(current_wait, wait) ==
  current_wait \div TicksPerSecond < wait

\* current_wait <= wait, with current_wait in ticks and wait in seconds.
WithinWait(current_wait, wait) ==
  \/ current_wait \div TicksPerSecond < wait
  \/ current_wait \div TicksPerSecond = wait /\ current_wait % TicksPerSecond = 0

\* PollJob(job_reference, status) on the transport's answer resp:
\* (current == status, job), or the error execute raises.
PollJob(resp, status) ==
  LET r == execute(resp)
  IN  IF r.ok THEN [ok |-> TRUE, done |-> r.value.status.state = status,
                    job |-> r.value]
      ELSE r

\* What a poll gave, for hist.
Fetched(p) == IF p.ok THEN p.job.status.state ELSE p.error.kind

\* Mutant of Caught: except BigqueryError.
Caught_AnyBigqueryError(error) == error.kind # "StopIteration"

\* except BigqueryCommunicationError
Caught(error) == error.kind = "BigqueryCommunicationError"

\* One pass of WaitJob's while loop up to the for loop: the loop test, the
\* poll, and either the final Print and break, the start of the next backoff
\* tick, or an error that is not caught.
WaitJobPoll ==
  /\ pc = "WaitJob"
  /\ WithinWait(Get(wj).current_wait, Get(wj).wait)
  /\ now <= MaxTime * TicksPerSecond \/ Get(wj).wait < maxint
  /\ \E d \in 0..MaxPollDur, resp \in GetResponses :
       LET w == Get(wj)
           p == PollJob(resp, w.status)
       IN  /\ now' = now + d
           /\ requests' = [requests EXCEPT !.polls = @ + 1]
           /\ hist' = [fetched |-> IF Len(hist.fetched) < MaxFetched
                                      THEN Append(hist.fetched, Fetched(p))
                                      ELSE hist.fetched,
                        last_poll |-> Some(Fetched(p)),
                        slept |-> 0]
           /\ IF p.ok /\ p.done
                THEN /\ wj' = Some([w EXCEPT !.job = Some(p.job),
                                             !.current_status = p.job.status.state])
                     /\ io' = IoPrint(w.job_reference.jobId, w.current_wait,
                                      p.job.status.state)
                     /\ printer' = Some(WaitPrinter_Print(Get(printer),
                                          p.job.status.state).printer)
                     /\ pc' = "Done"
                     /\ UNCHANGED outcome
              ELSE IF p.ok \/ Caught(p.error)
                THEN /\ wj' = Some([w EXCEPT
                            !.job = IF p.ok THEN Some(p.job) ELSE @,
                            !.current_status = IF p.ok THEN p.job.status.state ELSE @,
                            !.tick_left = waits_next(w.waits_pos),
                            !.waits_pos = @ + 1])
                     /\ pc' = "sleep"
                     /\ UNCHANGED <<outcome, io, printer>>
              ELSE /\ outcome' = Raise(p.error)
                   /\ pc' = "raised"
                   /\ UNCHANGED <<wj, io, printer>>
  /\ UNCHANGED <<self, server_job, call, result>>

\* Mutant of WaitJobSleep: time.sleep(1) does not return.
WaitJobSleep_NoReturn ==
  /\ pc = "sleep"
  /\ LET w == Get(wj)
     IN  /\ wj' = Some([w EXCEPT !.current_wait = now])
         /\ io' = IoPrint(w.job_reference.jobId, now, w.current_status)
         /\ printer' = Some(WaitPrinter_Print(Get(printer), w.current_status).printer)
         /\ pc' = "time.sleep"
  /\ UNCHANGED <<self, server_job, requests, call, result, outcome, now, hist>>

\* Mutant of WaitJobSleep: the for loop sleeps without calling Print.
WaitJobSleep_NoPrint ==
  /\ pc = "sleep"
  /\ LET w == Get(wj)
     IN  /\ wj' = Some([w EXCEPT !.current_wait = now, !.tick_left = @ - 1])
         /\ now' = now + TicksPerSecond
         /\ pc' = IF w.tick_left = 1 THEN "WaitJob" ELSE "sleep"
  /\ hist' = [hist EXCEPT !.slept = @ + 1]
  /\ UNCHANGED <<self, server_job, requests, call, result, outcome, io, printer>>

\* One pass of the for loop: sample the clock, Print, sleep one second.
WaitJobSleep ==
  /\ pc = "sleep"
  /\ LET w == Get(wj)
     IN  /\ wj' = Some([w EXCEPT !.current_wait = now, !.tick_left = @ - 1])
         /\ io' = IoPrint(w.job_reference.jobId, now, w.current_status)
         /\ printer' = Some(WaitPrinter_Print(Get(printer), w.current_status).printer)
         /\ now' = now + TicksPerSecond
         /\ pc' = IF w.tick_left = 1 THEN "WaitJob" ELSE "sleep"
  /\ hist' = [hist EXCEPT !.slept = @ + 1]
  /\ UNCHANGED <<self, server_job, requests, call, result, outcome>>

\* Mutant of WaitJobTimeout: the message carries the initial status.
WaitJobTimeout_InitialStatus ==
  /\ pc = "WaitJob"
  /\ ~WithinWait(Get(wj).current_wait, Get(wj).wait)
  /\ outcome' = Raise([kind |-> "StopIteration", state |-> "UNKNOWN"])
  /\ pc' = "raised"
  /\ UNCHANGED <<self, server_job, requests, call, result, now, wj, printer,
                 io, hist>>

\* The while loop's else: the loop test failed.
WaitJobTimeout ==
  /\ pc = "WaitJob"
  /\ ~WithinWait(Get(wj).current_wait, Get(wj).wait)
  /\ outcome' = Raise([kind |-> "StopIteration", state |-> Get(wj).current_status])
  /\ pc' = "raised"
  /\ UNCHANGED <<self, server_job, requests, call, result, now, wj, printer,
                 io, hist>>

\* After the break: printer.Done() and return job. RunJobSynchronously goes
\* on to RaiseIfJobError with it.
WaitJobDone ==
  /\ pc = "Done"
  /\ io' = IoDone
  /\ IF Get(call).op = "WaitJob"
       THEN /\ outcome' = Return(Get(Get(wj).job))
            /\ pc' = "returned"
            /\ UNCHANGED result
       ELSE /\ result' = Get(wj).job
            /\ pc' = "RaiseIfJobError"
            /\ UNCHANGED outcome
  /\ UNCHANGED <<self, server_job, requests, call, now, wj, printer, hist>>

\* RaiseIfJobError(job) at the end of RunJobSynchronously and of ExecuteJob
\* with sync false, and the return of the job.
RaiseIfJobError ==
  /\ pc = "RaiseIfJobError"
  /\ LET job == Get(result)
     IN  IF IsFailedJob(job)
           THEN /\ outcome' = Raise(JobError(job))
                /\ pc' = "raised"
           ELSE /\ outcome' = Return(job)
                /\ pc' = "returned"
  /\ UNCHANGED <<self, server_job, requests, call, result, now, wj, printer,
                 io, hist>>

----------------------------------------------------------------------------
(* Specifications *)

SyncArgs == {None, Some(TRUE), Some(FALSE)}
ProjectArgs == {None, Some(""), Some("q")}
Waits == {-1, 0, 1, maxint}
Statuses == {"DONE", "RUNNING"}
Factories == {None, Some("QuietWaitPrinter")}

Next ==
  \/ \E s \in SyncArgs, p \in ProjectArgs : ExecuteJob(s, p)
  \/ \E p \in ProjectArgs : RunJobSynchronously(p)
  \/ \E p \in ProjectArgs : CallStartJob(p)
  \/ StartJob
  \/ \E st \in Statuses, w \in Waits, f \in Factories : WaitJob(st, w, f)
  \/ WaitJobPoll
  \/ WaitJobSleep
  \/ WaitJobTimeout
  \/ WaitJobDone
  \/ RaiseIfJobError
  \/ ServerStep

Spec == Init /\ [][Next]_vars

\* A client whose StartJob has returned a pending job, which the server may
\* have finished since; the job does not change while it is waited for.
InitWait ==
  /\ self = [project_id |-> "p", sync |-> FALSE,
             wait_printer_factory |-> "TransitionWaitPrinter"]
  /\ \E st \in JobStatuses : server_job = Some(Job("p", "j1", st[1], st[2]))
  /\ requests = [inserts |-> 1, polls |-> 0, insert_project |-> Some("p")]
  /\ call = Some([op |-> "StartJob", sync_arg |-> None, sync |-> FALSE,
                  project_id |-> None])
  /\ pc = "returned"
  /\ result = Some(Job("p", "j1", "PENDING", None))
  /\ outcome = Return(Job("p", "j1", "PENDING", None))
  /\ now = 0
  /\ wj = None
  /\ printer = None
  /\ io = NoIo
  /\ hist = NoHist

NextWait ==
  \/ \E w \in {LongWait, LongWait \div 20} : WaitJob("DONE", w, None)
  \/ WaitJobPoll
  \/ WaitJobSleep
  \/ WaitJobTimeout
  \/ WaitJobDone

SpecWait == InitWait /\ [][NextWait]_vars

\* The error classifier on its own: an error of the server, the list it
\* comes with and a job reference are classified by BigqueryError.Create
\* called directly, by BigqueryHttp.execute on a JSON error body carrying
\* the error, and by RaiseIfJobError on a job whose status carries the error
\* and the list. hist records the outcome of each.
MaxErrors == 3

ErrReasons ==
  {None, Some(""), Some("notFound"), Some("duplicate"), Some("accessDenied"),
   Some("invalidQuery"), Some("termsOfServiceNotAccepted"), Some("backendError")}

ErrMessages == {None, Some(""), Some("m")}

PrimaryErrors == [reason : ErrReasons, message : ErrMessages]

\* What the list can hold besides the primary error e.
Siblings(e) ==
  {e, [reason |-> Some("invalid"), message |-> Some("s1")],
      [reason |-> Some("invalid"), message |-> Some("s2")],
      [reason |-> Some("invalid"), message |-> None]}

ErrorLists(e) ==
  UNION { [1..n -> Siblings(e)] : n \in 0..MaxErrors }

JobRefs == {None, Some(JobReference_Create("p", "j1"))}

NoCalls == [Create |-> None, execute |-> None, RaiseIfJobError |-> None]

InitErr ==
  /\ self = [project_id |-> "p", sync |-> FALSE,
             wait_printer_factory |-> "TransitionWaitPrinter"]
  /\ server_job = None
  /\ requests = [inserts |-> 0, polls |-> 0, insert_project |-> None]
  /\ \E e \in PrimaryErrors : \E ls \in ErrorLists(e), jr \in JobRefs :
       call = Some([op |-> "classify", error |-> e, error_ls |-> ls, job_ref |-> jr])
  /\ pc = "idle"
  /\ result = None
  /\ outcome = None
  /\ now = 0
  /\ wj = None
  /\ printer = None
  /\ io = NoIo
  /\ hist = NoCalls

\* BigqueryError.Create(error, server_error, error_ls, job_ref=job_ref)
CallCreate ==
  /\ Get(call).op = "classify"
  /\ hist.Create = None
  /\ LET c == Get(call)
         e == Create(c.error, [error |-> Some([errors |-> Some(<<c.error>>)])],
                     c.error_ls, c.job_ref)
     IN  /\ outcome' = IF e.kind = "TypeError" THEN Raise(e) ELSE Return(e)
         /\ pc' = IF e.kind = "TypeError" THEN "raised" ELSE "returned"
         /\ hist' = [hist EXCEPT !.Create = outcome']
  /\ UNCHANGED <<self, server_job, requests, call, result, now, wj, printer, io>>

\* BigqueryHttp.execute of a request that the server answers with a JSON
\* error body whose first error is the error.
CallExecute ==
  /\ Get(call).op = "classify"
  /\ hist.execute = None
  /\ LET c == Get(call)
         r == execute([type |-> "HttpError", json |-> TRUE,
                       content |-> [error |-> Some([errors |-> Some(<<c.error>>)])]])
     IN  /\ outcome' = Raise(r.error)
         /\ pc' = "raised"
         /\ hist' = [hist EXCEPT !.execute = outcome']
  /\ UNCHANGED <<self, server_job, requests, call, result, now, wj, printer, io>>

\* RaiseIfJobError of a job whose status has the error as errorResult and
\* the list as errors.
CallRaiseIfJobError ==
  /\ Get(call).op = "classify"
  /\ hist.RaiseIfJobError = None
  /\ LET c == Get(call)
         job == [Job("p", "j1", "DONE", Some(c.error)) EXCEPT
                   !.status.errors = c.error_ls]
     IN  /\ outcome' = IF IsFailedJob(job) THEN Raise(JobError(job)) ELSE Return(job)
         /\ pc' = IF IsFailedJob(job) THEN "raised" ELSE "returned"
         /\ hist' = [hist EXCEPT !.RaiseIfJobError = outcome']
  /\ UNCHANGED <<self, server_job, requests, call, result, now, wj, printer, io>>

NextErr ==
  \/ CallCreate
  \/ CallExecute
  \/ CallRaiseIfJobError

SpecErr == InitErr /\ [][NextErr]_vars

\* The references and the resolvers on their own: a reference class's
\* Create on a set of fields, == on two references, a resolver on the str of
\* a reference of its type, and GetReference on an identifier, for a client
\* with or without a project id and a dataset id of its own.
MaxNameLen == 2
MaxIdLen == 5

StringsUpTo(n) == UNION { [1..k -> Chars] : k \in 0..n }

\* The values of the fields that are not a project id.
Names == StringsUpTo(MaxNameLen) \ {<<>>}

\* Names with a hyphen, which is no word character: with one the text after
\* the colon of 'a.a:-a' is not the name of a project of a domain.
HyphenNames == { <<"-">>, <<"-", "a">>, <<"a", "-">> }

\* The values of the fields of the references whose str is resolved.
NamesAndHyphens == Names \cup HyphenNames

\* The project ids: the names, the dotted names 'a.a' and 'a.-', and the
\* project ids of a domain 'a.a:a' and 'a.a.a:a'.
Projects ==
  Names \cup { <<"a", ".", "a">>, <<"a", ".", "-">>,
               <<"a", ".", "a", ":", "a">>, <<"a", ".", "a", ".", "a", ":", "a">> }

Identifiers ==
  StringsUpTo(MaxIdLen) \cup { <<"a", ".", "a", ".", "a", ":", "a">> }

Typenames == {"job", "project", "dataset", "table"}
FieldNames == {"projectId", "datasetId", "tableId", "jobId"}
FieldValues == {<<>>, <<"a">>, <<"p">>}

Kwds == UNION { [S -> FieldValues] : S \in SUBSET FieldNames }

\* The references of a class whose project id is among ps and whose other
\* fields are among ns.
References(typename, ps, ns) ==
  CASE typename = "project" ->
         { Reference_Create(typename, [projectId |-> p]).value : p \in ps }
    [] typename = "dataset" ->
         { Reference_Create(typename, [projectId |-> p, datasetId |-> d]).value :
             p \in ps, d \in ns }
    [] typename = "table" ->
         { Reference_Create(typename,
             [projectId |-> p, datasetId |-> d, tableId |-> t]).value :
             p \in ps, d \in ns, t \in ns }
    [] typename = "job" ->
         { Reference_Create(typename, [projectId |-> p, jobId |-> j]).value :
             p \in ps, j \in ns }

ReferenceCalls ==
  { [op |-> "Create", typename |-> t, kwds |-> k] : t \in Typenames, k \in Kwds }
    \cup
  { [op |-> "eq", a |-> a, b |-> b] :
      a, b \in UNION { References(t, FieldValues \ {<<>>}, FieldValues \ {<<>>}) :
                         t \in Typenames } }

ResolverCalls(typenames) ==
  { [op |-> "str", ref |-> r] :
      r \in UNION { References(t, Projects, NamesAndHyphens) : t \in typenames } }
    \cup
  { [op |-> o, identifier |-> i] :
      o \in {"GetReference", "_ParseIdentifier", "GetProjectReference",
              "GetDatasetReference", "GetTableReference", "GetJobReference"},
      i \in Identifiers }

\* The client's own project and dataset ids: __init__ refuses a dataset id
\* without a project id.
Ambients ==
  { a \in [project_id : {<<>>, <<"p">>}, dataset_id : {<<>>, <<"d">>}] :
      ~(a.dataset_id # <<>> /\ a.project_id = <<>>) }

InitRef ==
  /\ \/ /\ self = [project_id |-> <<>>, dataset_id |-> <<>>]
        /\ \E c \in ReferenceCalls : call = Some(c)
     \/ /\ \E c \in ResolverCalls({"table", "dataset", "job"}) : call = Some(c)
        /\ self \in Ambients
  /\ server_job = None
  /\ requests = [inserts |-> 0, polls |-> 0, insert_project |-> None]
  /\ pc = "idle"
  /\ result = None
  /\ outcome = None
  /\ now = 0
  /\ wj = None
  /\ printer = None
  /\ io = NoIo
  /\ hist = NoHist

\* The call ends with what the function returned or raised.
Finish(r) ==
  /\ outcome' = IF "ok" \in DOMAIN r /\ ~r.ok THEN Raise(r.error) ELSE Return(r.value)
  /\ pc' = IF "ok" \in DOMAIN r /\ ~r.ok THEN "raised" ELSE "returned"
  /\ UNCHANGED <<self, server_job, requests, call, result, now, wj, printer,
                 io, hist>>

CallReferenceCreate ==
  /\ pc = "idle" /\ Get(call).op = "Create"
  /\ Finish(Reference_Create(Get(call).typename, Get(call).kwds))

\* a == b
CallReferenceEq ==
  /\ pc = "idle" /\ Get(call).op = "eq"
  /\ Finish([ok |-> TRUE, value |-> Reference_eq(Get(call).a, Get(call).b)])

\* The resolver of a reference's type on the reference's str.
CallResolveStr ==
  /\ pc = "idle" /\ Get(call).op = "str"
  /\ LET ref == Get(call).ref
         identifier == Reference_str(ref)
     IN  Finish(CASE ref.typename = "table" -> GetTableReference(identifier)
                  [] ref.typename = "dataset" -> GetDatasetReference(identifier)
                  [] ref.typename = "job" -> GetJobReference(identifier))

CallGetReference ==
  /\ pc = "idle" /\ Get(call).op = "GetReference"
  /\ Finish(GetReference(Get(call).identifier))

CallParseIdentifier ==
  /\ pc = "idle" /\ Get(call).op = "_ParseIdentifier"
  /\ Finish([ok |-> TRUE, value |-> ParseIdentifier(Get(call).identifier)])

CallGetProjectReference ==
  /\ pc = "idle" /\ Get(call).op = "GetProjectReference"
  /\ Finish(GetProjectReference(Get(call).identifier))

CallGetDatasetReference ==
  /\ pc = "idle" /\ Get(call).op = "GetDatasetReference"
  /\ Finish(GetDatasetReference(Get(call).identifier))

CallGetTableReference ==
  /\ pc = "idle" /\ Get(call).op = "GetTableReference"
  /\ Finish(GetTableReference(Get(call).identifier))

CallGetJobReference ==
  /\ pc = "idle" /\ Get(call).op = "GetJobReference"
  /\ Finish(GetJobReference(Get(call).identifier))

NextRef ==
  \/ CallReferenceCreate
  \/ CallReferenceEq
  \/ CallResolveStr
  \/ CallGetReference
  \/ CallParseIdentifier
  \/ CallGetProjectReference
  \/ CallGetDatasetReference
  \/ CallGetTableReference
  \/ CallGetJobReference

SpecRef == InitRef /\ [][NextRef]_vars

\* Two calls of WaitJob at once, in two threads of one client with the
\* default printer factory, for the jobs j1 and j2. The answers of jobs.get
\* for each job and the ticks each of them takes are a script fixed at the
\* start, and so is the wait of each call; the script of j1 has MaxPolls
\* answers, the script of j2 has one, and the last answer of a script is
\* given again to every later poll. hist.stage says which calls run: first the call for j1 alone, then
\* the call for j2 alone, then both, their steps interleaved in any order;
\* hist.alone keeps what each call did alone. Per call i: call[i] holds the
\* arguments, wj[i] the locals, pc[i] the position, outcome[i] the outcome,
\* requests[i] the number of polls, now[i] what time.time() - start_time
\* reads in its thread (the ticks of its own polls and sleeps, the other
\* thread running meanwhile); printer holds the
\* printer objects, io the lines written to standard output, which is one
\* for both.
MaxPolls == 2

Waiters == {1, 2}

JobIdOf(i) == IF i = 1 THEN "j1" ELSE "j2"

\* The ticks a poll of these calls takes.
PairPollDurs == {0, 1}

\* An answer of jobs.get and the ticks it takes to come.
PollAnswers(i) ==
  { [resp |-> r, dur |-> d] :
      r \in { [type |-> "ok", body |-> Job("p", JobIdOf(i), s, None)] :
                s \in {"RUNNING", "DONE"} }
              \cup { NotFound, [type |-> "HttpError", json |-> FALSE] },
      d \in PairPollDurs }

\* The n-th answer of a script; the last one is repeated.
Answer(script, n) == script[IF n <= Len(script) THEN n ELSE Len(script)]

PairWaits == {0, 1}

Stages == <<{1}, {2}, {1, 2}>>

\* Mutant of Instance: the factory hands out one printer object.
Instance_Shared(i) == 1

\* The printer object of call i: wait_printer_factory() makes a new one in
\* each call.
Instance(i) == i

NotStarted ==
  /\ requests = [i \in Waiters |-> 0]
  /\ pc = [i \in Waiters |-> "idle"]
  /\ outcome = [i \in Waiters |-> None]
  /\ now = [i \in Waiters |-> 0]
  /\ wj = [i \in Waiters |-> None]
  /\ printer = [i \in Waiters |-> None]
  /\ io = <<>>

InitPair ==
  /\ self = [project_id |-> "p", sync |-> FALSE,
             wait_printer_factory |-> "TransitionWaitPrinter"]
  /\ \E s1 \in [1..MaxPolls -> PollAnswers(1)], s2 \in [1..1 -> PollAnswers(2)] :
       server_job = <<s1, s2>>
  /\ \E w1 \in PairWaits, w2 \in PairWaits :
       call = [i \in Waiters |->
                 [op |-> "WaitJob",
                  job_reference |-> JobReference_Create("p", JobIdOf(i)),
                  wait |-> IF i = 1 THEN w1 ELSE w2]]
  /\ result = None
  /\ hist = [stage |-> 1, alone |-> [i \in Waiters |-> None]]
  /\ NotStarted

\* The lines on standard output that name the job of call i.
LinesOf(i) == SelectSeq(io, LAMBDA l : l.job_id = JobIdOf(i))

\* printer.Print(job_id, wait_time, status) in call i: the printer object
\* and standard output after it.
PairPrint(i, wait_time, status) ==
  LET r == WaitPrinter_Print(Get(printer[Instance(i)]), status)
  IN  /\ printer' = [printer EXCEPT ![Instance(i)] = Some(r.printer)]
      /\ io' = IF Has(r.line)
                 THEN Append(io, [job_id |-> JobIdOf(i),
                                  seconds |-> wait_time \div TicksPerSecond,
                                  status |-> Get(r.line)])
                 ELSE io

\* WaitJob up to the while loop.
PairWaitJob(i) ==
  /\ i \in Stages[hist.stage]
  /\ pc[i] = "idle"
  /\ pc' = [pc EXCEPT ![i] = "WaitJob"]
  /\ now' = [now EXCEPT ![i] = 0]
  /\ wj' = [wj EXCEPT ![i] = Some(WaitJobLocals(call[i].job_reference, "DONE",
                                                 call[i].wait))]
  /\ printer' = [printer EXCEPT ![Instance(i)] =
                   Some(NewPrinter(self.wait_printer_factory))]
  /\ UNCHANGED <<self, server_job, requests, call, result, outcome, io, hist>>

\* One pass of the while loop up to the for loop.
PairPoll(i) ==
  /\ pc[i] = "WaitJob"
  /\ WithinWait(Get(wj[i]).current_wait, Get(wj[i]).wait)
  /\ LET w == Get(wj[i])
         answer == Answer(server_job[i], requests[i] + 1)
         p == PollJob(answer.resp, w.status)
     IN  /\ requests' = [requests EXCEPT ![i] = @ + 1]
         /\ now' = [now EXCEPT ![i] = @ + answer.dur]
         /\ IF p.ok /\ p.done
              THEN /\ wj' = [wj EXCEPT ![i] =
                               Some([w EXCEPT !.job = Some(p.job),
                                              !.current_status = p.job.status.state])]
                   /\ PairPrint(i, w.current_wait, p.job.status.state)
                   /\ pc' = [pc EXCEPT ![i] = "Done"]
                   /\ UNCHANGED outcome
            ELSE IF p.ok \/ Caught(p.error)
              THEN /\ wj' = [wj EXCEPT ![i] = Some([w EXCEPT
                          !.job = IF p.ok THEN Some(p.job) ELSE @,
                          !.current_status = IF p.ok THEN p.job.status.state ELSE @,
                          !.tick_left = waits_next(w.waits_pos),
                          !.waits_pos = @ + 1])]
                   /\ pc' = [pc EXCEPT ![i] = "sleep"]
                   /\ UNCHANGED <<outcome, io, printer>>
            ELSE /\ outcome' = [outcome EXCEPT ![i] = Raise(p.error)]
                 /\ pc' = [pc EXCEPT ![i] = "raised"]
                 /\ UNCHANGED <<wj, io, printer>>
  /\ UNCHANGED <<self, server_job, call, result, hist>>

\* One pass of the for loop: sample the clock, Print, sleep one second.
PairSleep(i) ==
  /\ pc[i] = "sleep"
  /\ LET w == Get(wj[i])
     IN  /\ wj' = [wj EXCEPT ![i] = Some([w EXCEPT !.current_wait = now[i],
                                                  !.tick_left = @ - 1])]
         /\ PairPrint(i, now[i], w.current_status)
         /\ now' = [now EXCEPT ![i] = @ + TicksPerSecond]
         /\ pc' = [pc EXCEPT ![i] = IF w.tick_left = 1 THEN "WaitJob" ELSE "sleep"]
  /\ UNCHANGED <<self, server_job, requests, call, result, outcome, hist>>

\* The while loop's else.
PairTimeout(i) ==
  /\ pc[i] = "WaitJob"
  /\ ~WithinWait(Get(wj[i]).current_wait, Get(wj[i]).wait)
  /\ outcome' = [outcome EXCEPT ![i] =
                   Raise([kind |-> "StopIteration",
                          state |-> Get(wj[i]).current_status])]
  /\ pc' = [pc EXCEPT ![i] = "raised"]
  /\ UNCHANGED <<self, server_job, requests, call, result, now, wj, printer,
                 io, hist>>

\* After the break: printer.Done() and return job.
PairDone(i) ==
  /\ pc[i] = "Done"
  /\ io' = IF WaitPrinterHelper_Done(Get(printer[Instance(i)]))
             THEN Append(io, [job_id |-> "", seconds |-> 0, status |-> "\n"])
             ELSE io
  /\ outcome' = [outcome EXCEPT ![i] = Return(Get(Get(wj[i]).job))]
  /\ pc' = [pc EXCEPT ![i] = "returned"]
  /\ UNCHANGED <<self, server_job, requests, call, result, now, wj, printer, hist>>

\* The calls of a stage have ended: what a call did alone is kept, and the
\* next stage starts from a new process.
PairNextStage ==
  /\ hist.stage < Len(Stages)
  /\ \A i \in Stages[hist.stage] : pc[i] \in {"returned", "raised"}
  /\ hist' = [stage |-> hist.stage + 1,
              alone |-> [i \in Waiters |->
                           IF Stages[hist.stage] = {i}
                             THEN Some([outcome |-> outcome[i], lines |-> LinesOf(i)])
                             ELSE hist.alone[i]]]
  /\ requests' = [i \in Waiters |-> 0]
  /\ pc' = [i \in Waiters |-> "idle"]
  /\ outcome' = [i \in Waiters |-> None]
  /\ now' = [i \in Waiters |-> 0]
  /\ wj' = [i \in Waiters |-> None]
  /\ printer' = [i \in Waiters |-> None]
  /\ io' = <<>>
  /\ UNCHANGED <<self, server_job, call, result>>

NextPair ==
  \/ \E i \in Waiters : PairWaitJob(i)
  \/ \E i \in Waiters : PairPoll(i)
  \/ \E i \in Waiters : PairSleep(i)
  \/ \E i \in Waiters : PairTimeout(i)
  \/ \E i \in Waiters : PairDone(i)
  \/ PairNextStage

SpecPair == InitPair /\ [][NextPair]_vars

\* ProcessSources on its own: call holds the source string, a sequence of
\* characters, io the local file system (the paths that are regular files
\* and those that are directories); hist keeps the tokens the string was
\* written from, each with blanks before or after it and commas between.
MaxSources == 2

\* str.split(c)
RECURSIVE split(_, _)
split(s, c) ==
  LET i == find(s, c)
  IN  IF i = 0 THEN <<s>>
      ELSE <<SubSeq(s, 1, i - 1)>> \o split(SubSeq(s, i + 1, Len(s)), c)

\* str.strip(), the blank standing for white space
RECURSIVE strip(_)
strip(s) ==
  IF s # <<>> /\ s[1] = " " THEN strip(Tail(s))
  ELSE IF s # <<>> /\ s[Len(s)] = " " THEN strip(SubSeq(s, 1, Len(s) - 1))
  ELSE s

\* str.startswith(prefix)
startswith(s, prefix) ==
  Len(s) >= Len(prefix) /\ SubSeq(s, 1, Len(prefix)) = prefix

\* os.path.exists and os.path.isfile
exists(path) == path \in io.files \cup io.dirs
isfile(path) == path \in io.files

\* Mutant of ProcessSources: one gs:// URI is enough.
ProcessSources_AnyGs(source_string) ==
  LET parts == split(source_string, ",")
      sources == [k \in 1..Len(parts) |-> strip(parts[k])]
      gs_uris == SelectSeq(sources, LAMBDA source :
                             startswith(source, <<"g", "s", ":", "/", "/">>))
  IN  IF sources = <<>> THEN Failed("BigqueryClientError")
      ELSE IF gs_uris # <<>> THEN [ok |-> TRUE, value |-> sources]
      ELSE IF Len(sources) > 1 THEN Failed("BigqueryClientError")
      ELSE IF ~exists(sources[1]) THEN Failed("BigqueryClientError")
      ELSE IF ~isfile(sources[1]) THEN Failed("BigqueryClientError")
      ELSE [ok |-> TRUE, value |-> sources]

ProcessSources(source_string) ==
  LET parts == split(source_string, ",")
      sources == [k \in 1..Len(parts) |-> strip(parts[k])]
      gs_uris == SelectSeq(sources, LAMBDA source :
                             startswith(source, <<"g", "s", ":", "/", "/">>))
  IN  IF sources = <<>> THEN Failed("BigqueryClientError")
      ELSE IF gs_uris # <<>>
        THEN IF Len(gs_uris) # Len(sources) THEN Failed("BigqueryClientError")
             ELSE [ok |-> TRUE, value |-> sources]
      ELSE IF Len(sources) > 1 THEN Failed("BigqueryClientError")
      ELSE IF ~exists(sources[1]) THEN Failed("BigqueryClientError")
      ELSE IF ~isfile(sources[1]) THEN Failed("BigqueryClientError")
      ELSE [ok |-> TRUE, value |-> sources]

\* 'gs://a', 'gs://', 'gs:/a', 'f' and the empty token.
SourceTokens ==
  { <<"g", "s", ":", "/", "/", "a">>, <<"g", "s", ":", "/", "/">>,
    <<"g", "s", ":", "/", "a">>, <<"f">>, <<>> }

Padded(token) == { token, <<" ">> \o token, token \o <<" ">> }

RECURSIVE join_sources(_)
join_sources(tokens) ==
  IF Len(tokens) = 1 THEN tokens[1]
  ELSE tokens[1] \o <<",">> \o join_sources(Tail(tokens))

FileSystems ==
  { [files |-> {<<"f">>}, dirs |-> {}], [files |-> {}, dirs |-> {<<"f">>}],
    [files |-> {}, dirs |-> {}] }

InitSrc ==
  /\ self = [project_id |-> <<>>, dataset_id |-> <<>>]
  /\ server_job = None
  /\ requests = [inserts |-> 0, polls |-> 0, insert_project |-> None]
  /\ \E n \in 1..MaxSources : \E tokens \in [1..n -> SourceTokens] :
       \E padded \in [1..n -> UNION { Padded(t) : t \in SourceTokens }] :
          /\ \A k \in 1..n : padded[k] \in Padded(tokens[k])
          /\ call = Some([op |-> "ProcessSources",
                          source_string |-> join_sources(padded)])
          /\ hist = [tokens |-> tokens]
  /\ pc = "idle"
  /\ result = None
  /\ outcome = None
  /\ now = 0
  /\ wj = None
  /\ printer = None
  /\ io \in FileSystems

CallProcessSources ==
  /\ pc = "idle" /\ Get(call).op = "ProcessSources"
  /\ Finish(ProcessSources(Get(call).source_string))

NextSrc == CallProcessSources

SpecSrc == InitSrc /\ [][NextSrc]_vars

\* StartJob and the configuration it is given. wj is the heap: a sequence of
\* dicts, a dict a function from keys to values, a value a string or a
\* reference [ref |-> address] to a dict of the heap. The caller's
\* configuration is the dict at address 1, the parameters of its job type the
\* dict at address 2, the properties it may already have the dict at address
\* 3. self.job_property is a list of strings, each a sequence of characters.
\* requests.body is the request body as the transport serialises it; hist
\* keeps the caller's configuration as it was before the call. No file is
\* uploaded.
MaxProps == 2

JobTypes == {"query", "load", "extract", "copy"}

\* 'k=v', 'k', 'k=v=v' and 'l=v'.
PropStrings ==
  { <<"k", "=", "v">>, <<"k">>, <<"k", "=", "v", "=", "v">>, <<"l", "=", "v">> }

\* A reference to the dict at an address.
Ref(address) == [ref |-> address]

\* A value with the dicts it refers to in place of the references.
RECURSIVE Deep(_, _)
Deep(heap, value) ==
  IF "ref" \in DOMAIN value
    THEN [k \in DOMAIN heap[value.ref] |-> Deep(heap, heap[value.ref][k])]
    ELSE value

\* Mutant of copy: the dict itself, not a copy of it.
copy_Alias(heap, address) == [heap |-> heap, address |-> address]

\* dict.copy(): a new dict with the keys and values of the dict at address.
copy(heap, address) ==
  [heap |-> Append(heap, heap[address]), address |-> Len(heap) + 1]

\* d[key] = value for the dict at address
setitem(heap, address, key, value) ==
  [heap EXCEPT ![address] =
     [k \in DOMAIN heap[address] \cup {key} |->
        IF k = key THEN value ELSE heap[address][k]]]

\* dict(prop.partition('=')[0::2] for prop in job_property): for a key that
\* comes twice the last value stays.
properties(job_property) ==
  LET pair(n) == <<partition(job_property[n], "=")[1],
                   partition(job_property[n], "=")[3]>>
      keys == { pair(n)[1] : n \in 1..Len(job_property) }
      last(k) == CHOOSE n \in 1..Len(job_property) :
                   /\ pair(n)[1] = k
                   /\ \A m \in 1..Len(job_property) : pair(m)[1] = k => m <= n
  IN  [k \in keys |-> [str |-> pair(last(k))[2]]]

InitCfg ==
  /\ \E p \in ProjectIds, n \in 0..MaxProps : \E props \in [1..n -> PropStrings] :
       self = [project_id |-> p, sync |-> FALSE,
               wait_printer_factory |-> "TransitionWaitPrinter",
               job_property |-> props]
  /\ server_job = None
  /\ requests = [inserts |-> 0, polls |-> 0, insert_project |-> None, body |-> None]
  /\ \E project_id \in {None, Some("p")}, job_id \in {None, Some("j1")} :
       call = Some([op |-> "StartJob", configuration |-> 1,
                    project_id |-> project_id, job_id |-> job_id])
  /\ pc = "idle"
  /\ result = None
  /\ outcome = None
  /\ now = 0
  /\ \E t \in JobTypes, with_properties \in BOOLEAN :
       wj = << [k \in {t} \cup (IF with_properties THEN {"properties"} ELSE {}) |->
                  IF k = t THEN Ref(2) ELSE Ref(3)],
               [k \in {"sourceUri"} |-> [str |-> "u"]],
               [k \in {<<"k">>} |-> [str |-> <<"o">>]] >>
  /\ printer = None
  /\ io = NoIo
  /\ hist = [before |-> Deep(wj, Ref(1))]

\* StartJob(configuration, project_id=project_id, job_id=job_id)
StartJobConfiguration ==
  /\ pc = "idle" /\ Get(call).op = "StartJob"
  /\ LET project_id == StartJobProject(Get(call).project_id)
         copied == copy(wj, Get(call).configuration)
         configuration == copied.address
         with_properties ==
           IF self.job_property # <<>>
             THEN setitem(Append(copied.heap, properties(self.job_property)),
                          configuration, "properties", Ref(Len(copied.heap) + 1))
             ELSE copied.heap
         with_request ==
           Append(with_properties, [k \in {"configuration"} |-> Ref(configuration)])
         job_request == Len(with_request)
         heap ==
           IF Has(Get(call).job_id)
             THEN setitem(Append(with_request,
                                 [k \in {"jobId"} |-> [str |-> Get(Get(call).job_id)]]),
                          job_request, "jobReference", Ref(Len(with_request) + 1))
             ELSE with_request
     IN  IF project_id = ""
           THEN /\ outcome' = Raise([kind |-> "BigqueryClientConfigurationError"])
                /\ pc' = "raised"
                /\ UNCHANGED <<server_job, requests, result, wj>>
           ELSE \E resp \in InsertResponses(project_id) :
                  LET r == execute(resp)
                  IN  /\ wj' = heap
                      /\ requests' = [requests EXCEPT
                                        !.inserts = @ + 1,
                                        !.insert_project = Some(project_id),
                                        !.body = Some(Deep(heap, Ref(job_request)))]
                      /\ IF r.ok
                           THEN /\ server_job' = Some(r.value)
                                /\ result' = Some(r.value)
                                /\ outcome' = Return(r.value)
                                /\ pc' = "returned"
                           ELSE /\ outcome' = Raise(r.error)
                                /\ pc' = "raised"
                                /\ UNCHANGED <<server_job, result>>
  /\ UNCHANGED <<self, call, now, printer, io, hist>>

NextCfg == StartJobConfiguration

SpecCfg == InitCfg /\ [][NextCfg]_vars

\* WaitJob with a finite wait, for a job that the server moves on at any
\* time or never, under the condition that the thread of the call keeps
\* running: a poll returns or raises, a sleep returns, and the steps in
\* between are taken.
LiveWait == 10

NextLive ==
  \/ \E w \in {0, LiveWait} : WaitJob("DONE", w, None)
  \/ WaitJobPoll
  \/ WaitJobSleep
  \/ WaitJobTimeout
  \/ WaitJobDone
  \/ ServerStep

SpecLive ==
  /\ InitWait
  /\ [][NextLive]_vars
  /\ WF_vars(WaitJobPoll)
  /\ WF_vars(WaitJobSleep)
  /\ WF_vars(WaitJobTimeout)
  /\ WF_vars(WaitJobDone)

\* ReadTableRows against a table of the server. server_job is the table: the
\* totalRows it reports, the same in every answer. call holds max_rows as
\* given, wj the locals rows and max_rows, rows as the sequence of pages
\* appended, a page [start |-> s, n |-> k] being k rows from row s on.
\* requests counts the tabledata.list requests, hist keeps the startIndex and
\* maxResults of each and the number of rows it was answered with, and
\* whether every page so far ended within totalRows. The server answers a
\* request with any number of rows up to maxResults; after MaxShortPages
\* requests it answers with maxResults rows, with the rows that remain of the
\* table, or with none.
MaxShortPages == 2

PageCap == 10000

min(a, b) == IF a <= b THEN a ELSE b

RowCounts == {0, 1, 2, PageCap - 1, PageCap, PageCap + 1, 2 * PageCap + 1, maxint}

TotalRows == {0, 1, 3, PageCap, PageCap + 2, 2 * PageCap + 3}

\* len(rows)
len(rows) ==
  LET RECURSIVE sum(_)
      sum(n) == IF n = 0 THEN 0 ELSE rows[n].n + sum(n - 1)
  IN  sum(Len(rows))

\* Mutant of MaxResults: every page may be as large as the largest.
MaxResults_Cap(max_rows, rows) == PageCap

\* maxResults=min(10000, max_rows - len(rows))
MaxResults(max_rows, rows) == min(PageCap, max_rows - len(rows))

\* The numbers of rows the server may answer with.
PageSizes(maxResults, startIndex) ==
  LET remaining == IF server_job.totalRows >= startIndex
                     THEN min(maxResults, server_job.totalRows - startIndex)
                     ELSE 0
  IN  IF requests.lists < MaxShortPages
        THEN { k \in {0, 1, 2, remaining, maxResults - 1, maxResults} :
                 k >= 0 /\ k <= maxResults }
        ELSE {0, remaining, maxResults}

InitRows ==
  /\ self = [project_id |-> "p", sync |-> FALSE,
             wait_printer_factory |-> "TransitionWaitPrinter"]
  /\ \E t \in TotalRows : server_job = [totalRows |-> t]
  /\ requests = [lists |-> 0]
  /\ \E m \in RowCounts : call = Some([op |-> "ReadTableRows", max_rows |-> m])
  /\ pc = "idle"
  /\ result = None
  /\ outcome = None
  /\ now = 0
  /\ wj = None
  /\ printer = None
  /\ io = NoIo
  /\ hist = [requests |-> <<>>, within |-> TRUE]

\* rows = []
CallReadTableRows ==
  /\ pc = "idle" /\ Get(call).op = "ReadTableRows"
  /\ wj' = Some([rows |-> <<>>, max_rows |-> Get(call).max_rows])
  /\ pc' = "ReadTableRows"
  /\ UNCHANGED <<self, server_job, requests, call, result, outcome, now, printer,
                 io, hist>>

\* One pass of the while loop.
ReadTableRowsPage ==
  /\ pc = "ReadTableRows"
  /\ len(Get(wj).rows) < Get(wj).max_rows
  /\ LET maxResults == MaxResults(Get(wj).max_rows, Get(wj).rows)
         startIndex == len(Get(wj).rows)
     IN  \E k \in PageSizes(maxResults, startIndex) :
           LET max_rows == min(Get(wj).max_rows, server_job.totalRows)
               rows == IF k > 0
                         THEN Append(Get(wj).rows, [start |-> startIndex, n |-> k])
                         ELSE Get(wj).rows
           IN  /\ requests' = [requests EXCEPT !.lists = @ + 1]
               /\ hist' = [requests |-> Append(hist.requests,
                                          [startIndex |-> startIndex,
                                           maxResults |-> maxResults, n |-> k]),
                           within |-> hist.within
                                        /\ startIndex + k <= server_job.totalRows]
               /\ wj' = Some([rows |-> rows, max_rows |-> max_rows])
               /\ IF k = 0 /\ len(rows) # max_rows
                    THEN /\ outcome' = Raise([kind |-> "BigqueryInterfaceError"])
                         /\ pc' = "raised"
                    ELSE UNCHANGED <<outcome, pc>>
  /\ UNCHANGED <<self, server_job, call, result, now, printer, io>>

\* return rows
ReadTableRowsReturn ==
  /\ pc = "ReadTableRows"
  /\ ~(len(Get(wj).rows) < Get(wj).max_rows)
  /\ outcome' = Return(Get(wj).rows)
  /\ pc' = "returned"
  /\ UNCHANGED <<self, server_job, requests, call, result, now, wj, printer, io,
                 hist>>

NextRows ==
  \/ CallReadTableRows
  \/ ReadTableRowsPage
  \/ ReadTableRowsReturn

SpecRows == InitRows /\ [][NextRows]_vars

----------------------------------------------------------------------------
(* Properties *)

JobStates == {"PENDING", "RUNNING", "DONE"}

\* A WaitJob has ended: it returned (to its caller, or to
\* RunJobSynchronously) or it raised.
WaitEnded == Has(wj) /\ pc \in {"returned", "raised", "RaiseIfJobError"}

Raised == pc = "raised" /\ Has(outcome) /\ Get(outcome).type = "raise"

TimedOut == Raised /\ Get(outcome).error.kind = "StopIteration"

\* A step that sends a jobs.get request.
PollStep == requests'.polls = requests.polls + 1

\* A step that sleeps one second.
SleepStep == hist'.slept = hist.slept + 1

\* The state of the last successful poll among f, 'UNKNOWN' if there is none.
LastOk(f) ==
  LET ok == SelectSeq(f, LAMBDA x : x \in JobStates)
  IN  IF ok = <<>> THEN "UNKNOWN" ELSE ok[Len(ok)]

\* C1: however a WaitJob ends (desired state reached, wait timed out, an
\* error other than a communication error raised by a poll), the printer's
\* Done has been called exactly once, and no Print call follows a Done call.
C1_DoneExactlyOnce ==
  /\ WaitEnded => io.done_calls = 1
  /\ io.done_calls <= 1
  /\ ~io.print_after_done

\* C2: a WaitJob that times out raises StopIteration with the state of the
\* most recent successful poll ('UNKNOWN' if no poll succeeded), which is
\* not the desired state; it times out as soon as the loop test fails, and
\* once it has raised it sends no further request.
C2_TimeoutCarriesLastState ==
  /\ [](TimedOut =>
          /\ Get(outcome).error.state =
               (IF Has(Get(wj).job) THEN Get(Get(wj).job).status.state
                ELSE "UNKNOWN")
          /\ requests.polls <= MaxFetched =>
               Get(outcome).error.state = LastOk(hist.fetched)
          /\ Has(hist.last_poll) /\ Get(hist.last_poll) \in JobStates =>
               Get(outcome).error.state = Get(hist.last_poll)
          /\ Get(outcome).error.state # Get(wj).status)
  /\ [][/\ TimedOut => UNCHANGED <<requests, pc, outcome, now, io>>
        /\ ( /\ pc = "WaitJob" /\ pc' # pc
             /\ Get(wj).wait < maxint
             /\ Get(wj).current_wait > Get(wj).wait * TicksPerSecond ) => TimedOut'
       ]_vars

C2_Witness ==
  /\ TimedOut
  /\ Get(outcome).error.state = "PENDING"
  /\ requests.polls >= 2

\* C3: a BigqueryCommunicationError raised by a poll is swallowed: the loop
\* goes on to sleep the next backoff tick (at least one second) and, unless
\* the wait has timed out, polls again; WaitJob never raises it. An error of
\* any other kind raised by a poll is raised by WaitJob at once, and nothing
\* is retried after that.
C3_CommunicationErrorsSwallowed ==
  [][/\ (PollStep /\ hist'.last_poll = Some("BigqueryCommunicationError")) =>
          /\ pc' = "sleep"
          /\ outcome' = outcome
          /\ Get(wj').tick_left >= 1
          /\ Get(wj').waits_pos = Get(wj).waits_pos + 1
     /\ (PollStep /\ Get(hist'.last_poll) \notin
                       JobStates \cup {"BigqueryCommunicationError"}) =>
          /\ Raised'
          /\ Get(outcome').error.kind = Get(hist'.last_poll)
     /\ pc = "sleep" => pc' \in {"sleep", "WaitJob"}
     /\ ( /\ pc = "WaitJob" /\ pc' # pc
          /\ \/ Get(wj).wait = maxint
             \/ Get(wj).current_wait <= Get(wj).wait * TicksPerSecond ) => PollStep
     /\ (Has(wj') /\ Raised') =>
          Get(outcome').error.kind # "BigqueryCommunicationError"
     /\ Raised => UNCHANGED <<requests, pc, outcome, now, io>>
    ]_vars

\* A poll failed with a communication error and the same WaitJob went on to
\* return the job.
C3_Witness ==
  /\ Has(wj) /\ pc = "returned"
  /\ Len(hist.fetched) >= 2
  /\ hist.fetched[1] = "BigqueryCommunicationError"
  /\ Get(outcome).type = "return"

\* t ticks are more than w seconds.
Exceeds(t, w) == w < maxint /\ t > w * TicksPerSecond

\* C4 as stated: once the elapsed time exceeds wait, WaitJob neither sleeps
\* nor polls again before it raises the timeout.
C4_TimeoutCheckedContinuously ==
  [][(Has(wj) /\ pc \in {"WaitJob", "sleep"} /\ Exceeds(now, Get(wj).wait)) =>
       ~PollStep /\ ~SleepStep]_vars

\* C4, amended: the wait is tested only at the head of the polling loop,
\* against current_wait, the elapsed time sampled before the last sleep of the
\* preceding backoff tick (0 before the first poll). If current_wait exceeds
\* wait, the timeout is raised with no further sleep or poll; if it does not,
\* the next poll is made, whatever the elapsed time is by then; a backoff
\* tick in progress is slept to its end, whatever the elapsed time.
C4_TimeoutCheckedAtLoopHead ==
  [][Has(wj) =>
       /\ (pc = "WaitJob" /\ Exceeds(Get(wj).current_wait, Get(wj).wait)) =>
            /\ ~PollStep /\ ~SleepStep
            /\ pc' # pc => TimedOut'
       /\ ( /\ pc = "WaitJob" /\ pc' # pc
            /\ ~Exceeds(Get(wj).current_wait, Get(wj).wait) ) => PollStep
       /\ (pc = "sleep" /\ pc' # pc) => Get(wj).tick_left = 1
       /\ (pc = "sleep" /\ wj' # wj) =>
            /\ SleepStep
            /\ Get(wj').current_wait = now
            /\ now' = now + TicksPerSecond
            /\ outcome' = outcome
     ]_vars

\* The elapsed time has exceeded wait in the middle of a backoff tick, and
\* WaitJob goes on sleeping.
C4_Witness ==
  /\ Has(wj) /\ pc = "sleep"
  /\ Exceeds(Get(wj).current_wait, Get(wj).wait)
  /\ hist.slept >= 1
  /\ Get(wj).tick_left >= 2

\* The backoff schedule: the sleep, in seconds, after the k-th poll.
Schedule(k) ==
  IF k <= 8 THEN 1 ELSE IF k <= 18 THEN 2 + 3 * (k - 9) ELSE 30

\* C5: the number of one-second sleeps between the k-th poll and the next
\* one is 1 for k = 1..8, then 2, 5, ..., 29 for k = 9..18, then 30; every
\* poll counts, also one that failed with a communication error, and the
\* schedule never restarts.
C5_BackoffSchedule ==
  (Has(wj) /\ requests.polls >= 1) =>
     /\ pc = "WaitJob" => hist.slept = Schedule(requests.polls)
     /\ pc = "sleep" =>
          /\ Get(wj).tick_left >= 1
          /\ hist.slept + Get(wj).tick_left = Schedule(requests.polls)
     /\ pc \in {"WaitJob", "sleep"} => Get(wj).waits_pos = requests.polls

\* Twenty polls were made, the second failed with a communication error, and
\* the 30 seconds after the 20th have been slept.
C5_Witness ==
  /\ Has(wj) /\ pc = "WaitJob"
  /\ requests.polls = 20
  /\ hist.slept = 30
  /\ hist.fetched[2] = "BigqueryCommunicationError"

\* A synchronous run: RunJobSynchronously, or ExecuteJob running it.
SyncRun ==
  /\ Has(call)
  /\ Get(call).op \in {"RunJobSynchronously", "ExecuteJob"}
  /\ Get(call).sync

Ended == pc \in {"returned", "raised"}

\* The outcomes of a run.
ReturnedDone ==
  /\ pc = "returned" /\ Get(outcome).type = "return"
  /\ Get(outcome).value.status.state = "DONE"
  /\ ~Has(Get(outcome).value.status.errorResult)

IsJobError(e) == "job_ref" \in DOMAIN e /\ Has(e.job_ref)

RaisedJobError ==
  /\ Raised /\ IsJobError(Get(outcome).error)
  /\ Has(Get(wj).job)
  /\ Get(Get(wj).job).status.state = "DONE"
  /\ Has(Get(Get(wj).job).status.errorResult)

RaisedPollError ==
  /\ Raised
  /\ Get(outcome).error.kind \notin {"StopIteration", "BigqueryCommunicationError"}
  /\ ~IsJobError(Get(outcome).error)
  /\ hist.last_poll = Some(Get(outcome).error.kind)

\* C6 as stated: a synchronous run that has been submitted ends in one of
\* three outcomes: the job returned (DONE, no errorResult), the job's
\* classified error raised (DONE with errorResult), or a timeout raised.
C6_ThreeOutcomes ==
  (SyncRun /\ Has(wj) /\ Ended) => (ReturnedDone \/ RaisedJobError \/ TimedOut)

\* C6, amended: a synchronous run whose insert succeeded goes on to poll and
\* ends in exactly one of four outcomes: the three of C6 and a fourth, an
\* error other than a communication error raised by a poll, which leaves
\* WaitJob and the run whatever the state of the job. WaitJob returns a job
\* only when the poll that produced it reported the desired status, and
\* after the outcome no insert or poll request is made.
C6_FourOutcomes ==
  /\ []((SyncRun /\ Has(result)) =>
          /\ Has(wj)
          /\ requests.inserts = 1
          /\ pc \in {"WaitJob", "sleep", "Done", "RaiseIfJobError", "returned", "raised"}
          /\ Ended =>
               Cardinality({i \in 1..4 :
                  \/ i = 1 /\ ReturnedDone
                  \/ i = 2 /\ RaisedJobError
                  \/ i = 3 /\ TimedOut
                  \/ i = 4 /\ RaisedPollError}) = 1)
  /\ []((Has(wj) /\ (pc \in {"Done", "RaiseIfJobError"}
                      \/ (pc = "returned" /\ Get(outcome).type = "return"))) =>
          /\ Has(Get(wj).job)
          /\ Get(Get(wj).job).status.state = Get(wj).status
          /\ hist.last_poll = Some(Get(wj).status)
          /\ pc = "returned" => Get(outcome).value = Get(Get(wj).job))
  /\ [][(SyncRun /\ Ended) => UNCHANGED <<requests, pc, outcome, now, io>>]_vars

\* A RunJobSynchronously ended with an error raised by a poll.
C6_Witness ==
  /\ SyncRun /\ Get(call).op = "RunJobSynchronously"
  /\ Has(wj) /\ RaisedPollError
  /\ requests.polls >= 2

\* ExecuteJob asked to run synchronously, by its argument or by the client's
\* default.
SyncRequested ==
  /\ Has(call) /\ Get(call).op = "ExecuteJob"
  /\ \/ Get(call).sync_arg = Some(TRUE)
     \/ Get(call).sync_arg = None /\ self.sync

ConfigurationErrorRaised ==
  Raised /\ Get(outcome).error.kind = "BigqueryClientConfigurationError"

\* The reference of a job resource.
RefOf(job) ==
  [typename |-> "job", projectId |-> job.jobReference.projectId,
   jobId |-> job.jobReference.jobId]

\* C7: ExecuteJob with sync true (by argument or by default) sends one
\* insert (none only when StartJob finds no project id), before every poll,
\* and never a second one; once the insert has succeeded it waits for that
\* job; when the wait ends with a job that has an errorResult, the error
\* classified from it is raised with the job's own reference; otherwise
\* the job of the final poll is returned.
C7_SyncExecuteJob ==
  /\ [](SyncRequested =>
          /\ requests.inserts <= 1
          /\ requests.polls > 0 => requests.inserts = 1
          /\ Ended => (requests.inserts = 1 \/ ConfigurationErrorRaised)
          /\ Has(result) =>
               /\ Has(wj)
               /\ Get(wj).job_reference.jobId = Get(result).jobReference.jobId
               /\ Get(wj).job_reference.projectId = Get(result).jobReference.projectId
          /\ (Ended /\ hist.last_poll = Some("DONE")) =>
               LET job == Get(Get(wj).job)
               IN  IF Has(job.status.errorResult)
                     THEN /\ Raised
                          /\ Get(outcome).error.kind =
                               ReasonKind(Get(Get(job.status.errorResult).reason))
                          /\ Get(outcome).error.error = Get(job.status.errorResult)
                          /\ Get(outcome).error.job_ref = Some(RefOf(job))
                     ELSE outcome = Return(job))
  /\ [][SyncRequested =>
          /\ requests'.inserts >= requests.inserts
          /\ requests.polls > 0 => requests'.inserts = requests.inserts
          /\ PollStep => requests.inserts = 1]_vars

\* ExecuteJob, synchronous by the client's default, polled a job twice and
\* raised the job's error.
C7_Witness ==
  /\ SyncRequested /\ Get(call).sync_arg = None
  /\ Raised /\ IsJobError(Get(outcome).error)
  /\ requests.polls >= 2

\* ExecuteJob asked not to wait, by its argument or by the client's default.
AsyncRequested ==
  /\ Has(call) /\ Get(call).op = "ExecuteJob"
  /\ \/ Get(call).sync_arg = Some(FALSE)
     \/ Get(call).sync_arg = None /\ ~self.sync

\* C8: ExecuteJob with sync false sends one insert (none only when StartJob
\* finds no project id) and no jobs.get; if the inserted resource has an
\* errorResult the error classified from it is raised, otherwise that
\* resource is returned as it is, whatever its state.
C8_AsyncExecuteJob ==
  AsyncRequested =>
    /\ requests.polls = 0
    /\ requests.inserts <= 1
    /\ ~Has(wj)
    /\ io = NoIo
    /\ Ended => (requests.inserts = 1 \/ ConfigurationErrorRaised)
    /\ (Ended /\ Has(result)) =>
         IF Has(Get(result).status.errorResult)
           THEN /\ Raised
                /\ Get(outcome).error.kind =
                     ReasonKind(Get(Get(Get(result).status.errorResult).reason))
                /\ Get(outcome).error.job_ref = Some(RefOf(Get(result)))
           ELSE outcome = Return(Get(result))
    /\ (Ended /\ ~Has(result)) => (Raised /\ ~IsJobError(Get(outcome).error))

\* ExecuteJob(sync=False) on a client whose default is to wait returned a
\* pending job.
C8_Witness ==
  /\ AsyncRequested /\ Get(call).sync_arg = Some(FALSE) /\ self.sync
  /\ pc = "returned"
  /\ Get(outcome).value.status.state = "PENDING"

\* C9: StartJob without a project id of its own (None or empty) on a client
\* without a default one raises BigqueryClientConfigurationError and sends
\* nothing: no insert, no job on the server. Otherwise it sends one insert,
\* under its own project id if it has one, else under the client's.
C9_StartJobProjectId ==
  ( /\ Has(call)
    /\ Get(call).op \in {"StartJob", "ExecuteJob", "RunJobSynchronously"}
    /\ pc # "StartJob" ) =>
    LET a == Get(call).project_id
        explicit == Has(a) /\ Get(a) # ""
    IN  IF ~explicit /\ self.project_id = ""
          THEN /\ outcome = Raise([kind |-> "BigqueryClientConfigurationError"])
               /\ pc = "raised"
               /\ requests = [inserts |-> 0, polls |-> 0, insert_project |-> None]
               /\ server_job = None
          ELSE /\ requests.inserts = 1
               /\ requests.insert_project =
                    Some(IF explicit THEN Get(a) ELSE self.project_id)
               /\ Has(server_job) =>
                    Get(server_job).jobReference.projectId =
                      (IF explicit THEN Get(a) ELSE self.project_id)

\* A direct StartJob with no project id at all has raised the error.
C9_Witness ==
  /\ Has(call) /\ Get(call).op = "StartJob"
  /\ Get(call).project_id = None /\ self.project_id = ""
  /\ ConfigurationErrorRaised
  /\ requests.inserts = 0

IsTransition == Has(printer) /\ Get(printer).cls = "TransitionWaitPrinter"

\* C10: a TransitionWaitPrinter writes a line for a Print call if and only
\* if it is its first call or the status differs from that of its previous
\* call, so no two lines in a row carry the same status; a WaitJob whose
\* three polls give PENDING, RUNNING, DONE writes three lines and calls Done
\* once.
C10_TransitionPrinter ==
  /\ [](IsTransition =>
          /\ ~io.repeated
          /\ ( /\ WaitEnded
               /\ requests.polls = 3
               /\ hist.fetched = <<"PENDING", "RUNNING", "DONE">> ) =>
               (io.lines = 3 /\ io.done_calls = 1))
  /\ [][(IsTransition' /\ io'.print_calls # io.print_calls) =>
          /\ io'.print_calls = io.print_calls + 1
          /\ io'.lines \in {io.lines, io.lines + 1}
          /\ (io'.lines = io.lines + 1) <=>
               ( \/ ~Has(io.last_call)
                 \/ Get(io'.last_call).status # Get(io.last_call).status )
          /\ io'.lines = io.lines + 1 =>
               io'.last_line = Some(Get(io'.last_call).status)]_vars

C10_Witness ==
  /\ IsTransition /\ WaitEnded
  /\ requests.polls = 3
  /\ hist.fetched = <<"PENDING", "RUNNING", "DONE">>
  /\ io.lines = 3 /\ io.done_calls = 1 /\ io.print_calls = 3

\* The status WaitJob should report: the state of the most recent successful
\* poll, 'UNKNOWN' when there is none.
ReportedStatus ==
  IF Has(Get(wj).job) THEN Get(Get(wj).job).status.state ELSE "UNKNOWN"

\* C11: in WaitJob, Print is called with (job id, elapsed time, state) in the
\* step of a poll that found the desired state, and once in every
\* one-second pass of the backoff tick that follows a poll that found
\* another state or failed with a communication error, a tick of at least
\* one pass: no poll follows a poll without a Print between them. The state
\* passed is that of the most recent successful poll, 'UNKNOWN' if there is
\* none.
C11_PrintAfterEveryPoll ==
  /\ []((Has(wj) /\ requests.polls >= 1) =>
          /\ pc = "WaitJob" => (hist.slept >= 1 /\ io.print_calls >= requests.polls)
          /\ (pc \in {"WaitJob", "Done"} \/ (pc = "sleep" /\ hist.slept >= 1)) =>
               /\ Has(io.last_call)
               /\ Get(io.last_call).status = ReportedStatus
               /\ requests.polls <= MaxFetched =>
                    Get(io.last_call).status = LastOk(hist.fetched)
               /\ Get(io.last_call).job_id = Get(wj).job_reference.jobId
          /\ pc = "Done" =>
               /\ Has(io.last_call)
               /\ Get(io.last_call).status = Get(wj).status
               /\ hist.last_poll = Some(Get(io.last_call).status))
  /\ [][(Has(wj) /\ Has(wj')) =>
          /\ (PollStep /\ pc' = "Done") =>
               /\ io'.print_calls = io.print_calls + 1
               /\ Get(io'.last_call).wait_time = Get(wj).current_wait
          /\ (PollStep /\ pc' = "sleep") => Get(wj').tick_left >= 1
          /\ (PollStep /\ pc' # "raised") => pc' \in {"Done", "sleep"}
          /\ SleepStep =>
               /\ io'.print_calls = io.print_calls + 1
               /\ Get(io'.last_call).wait_time = now
               /\ Get(io'.last_call).status = Get(wj).current_status
               /\ now' = now + TicksPerSecond
          /\ (pc = "sleep" /\ wj' # wj) => SleepStep]_vars

\* A successful poll found RUNNING, the next poll failed with a
\* communication error, and the Print after it passed RUNNING again.
C11_Witness ==
  /\ Has(wj) /\ pc = "WaitJob"
  /\ hist.fetched = <<"RUNNING", "BigqueryCommunicationError">>
  /\ io.print_calls = 2
  /\ Get(io.last_call).status = "RUNNING"

\* The classifier's input, and the errors among error_ls that differ from
\* the primary one.
Primary == Get(call).error
Differing == SelectSeq(Get(call).error_ls, LAMBDA x : x # Primary)

\* The table of the error kinds.
KindOf ==
  [r \in {"notFound", "duplicate", "accessDenied", "invalidQuery",
          "termsOfServiceNotAccepted"} |->
     CASE r = "notFound" -> "BigqueryNotFoundError"
       [] r = "duplicate" -> "BigqueryDuplicateError"
       [] r = "accessDenied" -> "BigqueryAccessDeniedError"
       [] r = "invalidQuery" -> "BigqueryInvalidQueryError"
       [] r = "termsOfServiceNotAccepted" -> "BigqueryTermsOfServiceError"]

ExpectedKind(r) == IF r \in DOMAIN KindOf THEN KindOf[r] ELSE "BigqueryServiceError"

Created == Has(call) /\ Get(call).op = "classify" /\ Has(hist.Create)

\* C12 as stated: for a primary error that has a reason and a message,
\* Create returns the error of the kind the table gives for the reason,
\* whatever the message, the list and the job reference.
C12_KindByReason ==
  (Created /\ Has(Primary.reason) /\ Has(Primary.message)) =>
     /\ Get(hist.Create).type = "return"
     /\ Get(hist.Create).value.kind = ExpectedKind(Get(Primary.reason))

\* C12, amended: for a primary error that has a reason and a message, both
\* not empty, Create returns the error of the kind the table gives for the
\* reason (BigqueryTermsOfServiceError being a BigqueryAccessDeniedError, and
\* each of them a BigqueryServiceError), whatever the message, the list and
\* the job reference. An empty reason gives BigqueryInterfaceError, and so
\* does an empty message when there is neither a job reference nor an error
\* in the list that differs from the primary one; with one of them the
\* empty message gives the kind of the table.
C12_KindByNonEmptyReason ==
  (Created /\ Has(Primary.reason) /\ Has(Primary.message)) =>
     /\ Get(hist.Create).type = "return"
     /\ LET kind == Get(hist.Create).value.kind
            r == Get(Primary.reason)
        IN  IF r # "" /\ ( \/ Get(Primary.message) # ""
                           \/ Has(Get(call).job_ref)
                           \/ Differing # <<>> )
              THEN /\ kind = ExpectedKind(r)
                   /\ isinstance(kind, "BigqueryServiceError")
                   /\ r = "termsOfServiceNotAccepted" =>
                        isinstance(kind, "BigqueryAccessDeniedError")
                   /\ r # "termsOfServiceNotAccepted" /\ r # "accessDenied" =>
                        ~isinstance(kind, "BigqueryAccessDeniedError")
              ELSE kind = "BigqueryInterfaceError"

\* A 'duplicate' error with a job reference and a list of other errors is a
\* BigqueryDuplicateError.
C12_Witness ==
  /\ Created
  /\ Primary = [reason |-> Some("duplicate"), message |-> Some("m")]
  /\ Has(Get(call).job_ref)
  /\ Len(Differing) = 2
  /\ Get(hist.Create).value.kind = "BigqueryDuplicateError"

\* C13: for a primary error without reason or without message, Create
\* returns a BigqueryInterfaceError that embeds the server's envelope,
\* whatever the list and the job reference.
C13_MissingFieldInterfaceError ==
  (Created /\ (~Has(Primary.reason) \/ ~Has(Primary.message))) =>
     /\ Get(hist.Create).type = "return"
     /\ Get(hist.Create).value.kind = "BigqueryInterfaceError"
     /\ Get(hist.Create).value.server_error =
          [error |-> Some([errors |-> Some(<<Primary>>)])]

\* The message of an error, if it has one.
MessageOf(e) == IF "message" \in DOMAIN e THEN Some(e.message) ELSE None
ErrorOf(e) == IF "error" \in DOMAIN e THEN Some(e.error) ELSE None

BothPaths ==
  /\ Has(call) /\ Get(call).op = "classify"
  /\ Has(hist.execute) /\ Has(hist.RaiseIfJobError)

\* C14 as stated: for a primary error with reason and message, the error
\* raised by BigqueryHttp.execute for a JSON error body and the error raised
\* by RaiseIfJobError for a job with that errorResult have the same kind,
\* the same message and the same primary error.
C14_PathsIdentical ==
  (BothPaths /\ Has(Primary.reason) /\ Has(Primary.message)) =>
     LET t == Get(hist.execute).error
         j == Get(hist.RaiseIfJobError).error
     IN  /\ t.kind = j.kind
         /\ MessageOf(t) = MessageOf(j)
         /\ ErrorOf(t) = ErrorOf(j)

\* "Error processing job 'p:j1': "
JobPrefix == <<"Error processing ", "job", " '", "p", ":", "j1", "'", ": ">>

\* C14, amended: for a primary error with a reason and a message, both not
\* empty, the two paths raise errors of the same kind, the kind of the
\* table, with the same primary error; the message of the transport path is
\* the primary message, and the message of the job-status path is that
\* message after "Error processing <job reference>: ", followed by the
\* failure details if the job's list has other errors; the job-status path
\* alone carries the job reference and the list. With an empty message the
\* transport path raises BigqueryInterfaceError and the job-status path the
\* kind of the table; with an empty reason both raise
\* BigqueryInterfaceError.
C14_PathsAgreeOnKindAndError ==
  (BothPaths /\ Has(Primary.reason) /\ Has(Primary.message)) =>
     LET t == Get(hist.execute).error
         j == Get(hist.RaiseIfJobError).error
         r == Get(Primary.reason)
         m == Get(Primary.message)
     IN  /\ Get(hist.execute).type = "raise"
         /\ Get(hist.RaiseIfJobError).type = "raise"
         /\ IF r # "" /\ m # ""
              THEN /\ t.kind = ExpectedKind(r) /\ j.kind = t.kind
                   /\ t.error = Primary /\ j.error = Primary
                   /\ t.message = <<m>>
                   /\ SubSeq(j.message, 1, Len(JobPrefix) + 1) = JobPrefix \o t.message
                   /\ (j.message = JobPrefix \o t.message) <=> (Differing = <<>>)
                   /\ t.job_ref = None /\ t.error_list = <<>>
                   /\ j.job_ref = Some(JobReference_Create("p", "j1"))
                   /\ j.error_list = Get(call).error_ls
              ELSE /\ t.kind = "BigqueryInterfaceError"
                   /\ j.kind = IF r = "" THEN "BigqueryInterfaceError"
                               ELSE ExpectedKind(r)

\* An invalidQuery error went through both paths, the job's list holding it
\* and another error.
C14_Witness ==
  /\ BothPaths
  /\ Primary = [reason |-> Some("invalidQuery"), message |-> Some("m")]
  /\ Len(Get(call).error_ls) = 2 /\ Len(Differing) = 1
  /\ Get(hist.execute).error.kind = "BigqueryInvalidQueryError"
  /\ Get(hist.RaiseIfJobError).error.kind = "BigqueryInvalidQueryError"

\* The number of pieces of text that are x.
Count(text, x) == Cardinality({i \in 1..Len(text) : text[i] = x})

\* The messages of the errors of ls that have one that is not empty.
Messages(ls) ==
  LET with == SelectSeq(ls, LAMBDA e : Has(e.message) /\ Get(e.message) # "")
  IN  [i \in 1..Len(with) |-> Get(with[i].message)]

\* C15: the message of a classified error is the primary message (after
\* "Error processing <job reference>: " if there is a job reference),
\* followed by the 'Failure details' block if and only if the list has an
\* error that differs from the primary one; the block has one line for each
\* such error, in the order of the list, with the error's message after
\* ' - ', and no line for an error equal to the primary one.
C15_FailureDetails ==
  (Created /\ Get(hist.Create).type = "return"
           /\ Has(MessageOf(Get(hist.Create).value))) =>
     LET msg == Get(hist.Create).value.message
         m == IF Has(Primary.message) THEN Get(Primary.message) ELSE "None"
         first == IF Has(Get(call).job_ref) THEN Text(JobPrefix \o <<m>>)
                  ELSE Text(<<m>>)
         block == SubSeq(msg, Len(first) + 1, Len(msg))
         lines == SubSeq(block, 2, Len(block))
     IN  /\ SubSeq(msg, 1, Len(first)) = first
         /\ (block = <<>>) <=> (Differing = <<>>)
         /\ block # <<>> =>
              /\ block[1] = "\nFailure details:\n"
              /\ Count(lines, "\n") = Len(Differing) - 1
              /\ Count(lines, " - ") = Len(Messages(Differing))
              /\ SelectSeq(lines, LAMBDA t : t \notin {"\n", " - "}) =
                   Messages(Differing)
              /\ \A i \in 1..Len(lines) :
                   lines[i] \notin {"\n", " - "} => (i > 1 /\ lines[i - 1] = " - ")

\* A list of two errors that differ from the primary one around the primary
\* one gives a block of two lines.
C15_Witness ==
  /\ Created
  /\ Primary = [reason |-> Some("notFound"), message |-> Some("m")]
  /\ Get(call).job_ref = None
  /\ Get(call).error_ls = <<[reason |-> Some("invalid"), message |-> Some("s2")],
                            Primary,
                            [reason |-> Some("invalid"), message |-> Some("s1")]>>
  /\ Get(hist.Create).value.message =
       <<"m", "\nFailure details:\n", " - ", "s2", "\n", " - ", "s1">>

\* A call of the references' specification has ended.
Called(op) == Has(call) /\ Get(call).op = op /\ pc \in {"returned", "raised"}

\* The required fields of the four variants.
RequiredOf ==
  [job |-> {"projectId", "jobId"}, project |-> {"projectId"},
   dataset |-> {"projectId", "datasetId"},
   table |-> {"projectId", "datasetId", "tableId"}]

\* C16: a == b is true if and only if a and b are of the same variant and
\* have the same values in all required fields; it returns false otherwise,
\* and never fails.
C16_EqualityByVariant ==
  Called("eq") =>
     /\ pc = "returned"
     /\ Get(outcome).value =
          ( /\ Get(call).a.typename = Get(call).b.typename
            /\ \A name \in RequiredOf[Get(call).a.typename] :
                 Get(call).a[name] = Get(call).b[name] )

\* C17: Create of a variant raises ValueError if a required field of the
\* variant is absent or empty; otherwise it returns a reference of the
\* variant that holds the required fields, with the values given, and no
\* other field.
C17_CreateRequiredFields ==
  Called("Create") =>
     LET t == Get(call).typename
         k == Get(call).kwds
     IN  IF \E name \in RequiredOf[t] : name \notin DOMAIN k \/ k[name] = <<>>
           THEN Raised /\ Get(outcome).error.kind = "ValueError"
           ELSE /\ pc = "returned"
                /\ Get(outcome).value.typename = t
                /\ DOMAIN Get(outcome).value = RequiredOf[t] \cup {"typename"}
                /\ \A name \in RequiredOf[t] : Get(outcome).value[name] = k[name]

\* A DatasetReference was created from four fields, two of them not its own.
C17_Witness ==
  /\ Called("Create") /\ pc = "returned"
  /\ Get(call).typename = "dataset"
  /\ DOMAIN Get(call).kwds = {"projectId", "datasetId", "tableId", "jobId"}
  /\ Get(call).kwds["tableId"] = <<"a">>
  /\ Get(outcome).value =
       [typename |-> "dataset", projectId |-> <<"p">>, datasetId |-> <<"a">>]

\* c is one of the characters of s.
In(c, s) == \E i \in 1..Len(s) : s[i] = c

DottedProject(p) ==
  /\ Len(p) >= 3
  /\ IsWord(p[1])
  /\ \A k \in 1..Len(p) : IsWord(p[k]) \/ p[k] = "."
  /\ \E k \in 2..(Len(p) - 1) : p[k] = "."

\* A field with neither ':' nor '.'.
Plain(s) == ~In(":", s) /\ ~In(".", s)

\* projectId:name is read as the lone project id of a domain: the project
\* id is dotted and the name, which is plain, begins with a word character.
ReadAsProject(p, name) == DottedProject(p) /\ IsWord(name[1])

\* The references whose str is resolved to them.
RoundTrips(r) ==
  CASE r.typename = "table" -> Plain(r.datasetId) /\ ~In(":", r.tableId)
    [] r.typename = "dataset" ->
         Plain(r.datasetId) /\ ~ReadAsProject(r.projectId, r.datasetId)
    [] r.typename = "job" ->
         Plain(r.jobId) /\ ~ReadAsProject(r.projectId, r.jobId)

Bare(identifier) ==
  /\ identifier # <<>>
  /\ \A i \in 1..Len(identifier) : IsWord(identifier[i])

\* C19: GetReference returns what the first of GetTableReference,
\* GetDatasetReference and GetProjectReference that succeeds returns, and
\* raises BigqueryError if and only if all three fail; it returns no
\* JobReference. A bare identifier is the table of the client's project and
\* dataset if it has both, the dataset of its project if it has a project
\* and no dataset, and a project if it has no project (and so no dataset).
C19_TableDatasetProject ==
  Called("GetReference") =>
     LET identifier == Get(call).identifier
         t == GetTableReference(identifier)
         d == GetDatasetReference(identifier)
         p == GetProjectReference(identifier)
     IN  /\ (pc = "raised") <=> (~t.ok /\ ~d.ok /\ ~p.ok)
         /\ pc = "raised" => Get(outcome).error.kind = "BigqueryError"
         /\ pc = "returned" =>
              /\ Get(outcome).value =
                   (IF t.ok THEN t.value ELSE IF d.ok THEN d.value ELSE p.value)
              /\ Get(outcome).value.typename \in {"table", "dataset", "project"}
              /\ Get(outcome).value.typename =
                   (IF t.ok THEN "table" ELSE IF d.ok THEN "dataset" ELSE "project")
         /\ Bare(identifier) =>
              /\ pc = "returned"
              /\ Get(outcome).value =
                   IF self.project_id # <<>> /\ self.dataset_id # <<>>
                     THEN [typename |-> "table", projectId |-> self.project_id,
                           datasetId |-> self.dataset_id, tableId |-> identifier]
                   ELSE IF self.project_id # <<>>
                     THEN [typename |-> "dataset", projectId |-> self.project_id,
                           datasetId |-> identifier]
                   ELSE [typename |-> "project", projectId |-> identifier]

\* 'aa' is a dataset for a client with a project and no dataset.
C19_Witness ==
  /\ Called("GetReference") /\ pc = "returned"
  /\ Get(call).identifier = <<"a", "a">>
  /\ self = [project_id |-> <<"p">>, dataset_id |-> <<>>]
  /\ Get(outcome).value =
       [typename |-> "dataset", projectId |-> <<"p">>, datasetId |-> <<"a", "a">>]

\* An identifier made of a domain (words with a dot between each two), a
\* colon, and a word.
DomainScoped(identifier) ==
  \E i \in 4..(Len(identifier) - 1) :
     /\ identifier[i] = ":"
     /\ \A k \in 1..Len(identifier) : k # i => identifier[k] # ":"
     /\ \E k \in 1..(i - 1) : identifier[k] = "."
     /\ identifier[1] # "." /\ identifier[i - 1] # "."
     /\ \A k \in 1..(i - 2) : ~(identifier[k] = "." /\ identifier[k + 1] = ".")
     /\ \A k \in (i + 1)..Len(identifier) : IsWord(identifier[k])

\* C20: for an identifier that is a domain with a dot, a colon and a word,
\* GetReference returns the ProjectReference whose projectId is the whole
\* identifier, whatever the client's own project and dataset ids.
C20_DomainScopedProject ==
  (Called("GetReference") /\ DomainScoped(Get(call).identifier)) =>
     /\ pc = "returned"
     /\ Get(outcome).value =
          [typename |-> "project", projectId |-> Get(call).identifier]

\* 'a.a.a:a' is a project for a client with a project and a dataset.
C20_Witness ==
  /\ Called("GetReference") /\ pc = "returned"
  /\ Get(call).identifier = <<"a", ".", "a", ".", "a", ":", "a">>
  /\ self = [project_id |-> <<"p">>, dataset_id |-> <<"d">>]
  /\ Get(outcome).value.typename = "project"
  /\ Get(outcome).value.projectId = Get(call).identifier

\* The positions of the character c in s.
Positions(s, c) == { k \in 1..Len(s) : s[k] = c }

First(S) == CHOOSE k \in S : \A j \in S : k <= j
Last(S) == CHOOSE k \in S : \A j \in S : j <= k

Before(s, k) == SubSeq(s, 1, k - 1)
After(s, k) == SubSeq(s, k + 1, Len(s))

\* The bare domain-scoped project form: a token that starts with a word
\* character, is made of word characters and dots and has a dot that is
\* neither its first nor its last character; a colon; a name that starts with
\* a word character and goes on with word characters and hyphens; possibly
\* one more colon at the end.
ProjectForm(identifier) ==
  \E i \in 4..Len(identifier) :
     /\ identifier[i] = ":"
     /\ identifier[1] \notin {".", ":", "-"}
     /\ \A k \in 1..(i - 1) : identifier[k] \notin {":", "-"}
     /\ \E k \in 2..(i - 2) : identifier[k] = "."
     /\ \E e \in {Len(identifier) - 1, Len(identifier)} :
          /\ e >= i + 1
          /\ e < Len(identifier) => identifier[Len(identifier)] = ":"
          /\ identifier[i + 1] \notin {".", ":", "-"}
          /\ \A k \in (i + 1)..e : identifier[k] \notin {".", ":"}

\* The triple of an identifier split at its last colon, then the rest at its
\* first dot when there is something before the colon and at its last dot
\* otherwise; without a colon everything is the rest, without a dot the rest
\* is the dataset part in the first case and the table part in the second.
SplitOf(identifier) ==
  LET colons == Positions(identifier, ":")
      projectPart == IF colons = {} THEN <<>> ELSE Before(identifier, Last(colons))
      rest == IF colons = {} THEN identifier ELSE After(identifier, Last(colons))
      dots == Positions(rest, ".")
  IN  IF projectPart # <<>>
        THEN IF dots = {} THEN <<projectPart, rest, <<>>>>
             ELSE <<projectPart, Before(rest, First(dots)), After(rest, First(dots))>>
        ELSE IF dots = {} THEN <<projectPart, <<>>, rest>>
             ELSE <<projectPart, Before(rest, Last(dots)), After(rest, Last(dots))>>

\* The parts of a triple put together again, with the colon and the dot
\* that the identifier has.
Joined(identifier, parts) ==
  LET colons == Positions(identifier, ":")
      rest == IF colons = {} THEN identifier ELSE After(identifier, Last(colons))
  IN  parts[1] \o (IF colons = {} THEN <<>> ELSE <<":">>)
        \o parts[2] \o (IF Positions(rest, ".") = {} THEN <<>> ELSE <<".">>)
        \o parts[3]

\* C21: for an identifier that is not of the bare domain-scoped project form,
\* _ParseIdentifier returns the identifier split at its last colon into a
\* project part and a rest, and the rest split at its first dot when the
\* project part is not empty and at its last dot when it is; a missing part
\* is the empty string, the parts with their separators are the identifier
\* again, and the call never fails.
C21_SplitAtLastColon ==
  (Called("_ParseIdentifier") /\ ~ProjectForm(Get(call).identifier)) =>
     /\ pc = "returned"
     /\ Get(outcome).value = SplitOf(Get(call).identifier)
     /\ Joined(Get(call).identifier, Get(outcome).value) = Get(call).identifier

\* 'a:..a' has the project part 'a', an empty dataset part before the first
\* dot and the table part '.a'.
C21_Witness ==
  /\ Called("_ParseIdentifier") /\ pc = "returned"
  /\ Get(call).identifier = <<"a", ":", ".", ".", "a">>
  /\ Get(outcome).value = <<<<"a">>, <<>>, <<".", "a">>>>

\* What GetProjectReference is to return or raise for the parts of an
\* identifier.
ExpectedProject(parsed) ==
  LET project_id == IF parsed[1] # <<>> THEN parsed[1]
                    ELSE IF parsed[3] # <<>> THEN parsed[3]
                    ELSE self.project_id
  IN  IF parsed[2] # <<>> \/ project_id = <<>>
        THEN Raise([kind |-> "BigqueryClientError"])
        ELSE Return([typename |-> "project", projectId |-> project_id])

\* C22: GetProjectReference returns the ProjectReference of the project part
\* of the identifier, else of its table part, else of the client's project
\* id; it raises BigqueryClientError when the dataset part is not empty and
\* when all three are empty.
C22_ProjectOfIdentifier ==
  Called("GetProjectReference") =>
     /\ outcome = ExpectedProject(ParseIdentifier(Get(call).identifier))
     /\ (ParseIdentifier(Get(call).identifier)[2] # <<>>) => pc = "raised"

\* 'a:.a' has a project part and a table part: the project part is the
\* project.
C22_Witness ==
  /\ Called("GetProjectReference") /\ pc = "returned"
  /\ Get(call).identifier = <<"a", ":", ".", "a">>
  /\ self.project_id = <<"p">>
  /\ Get(outcome).value = [typename |-> "project", projectId |-> <<"a">>]

\* What GetDatasetReference is to return or raise for an identifier and its
\* parts.
ExpectedDataset(identifier, parsed) ==
  LET made(project_id, dataset_id) ==
        IF project_id = <<>> \/ dataset_id = <<>>
          THEN Raise([kind |-> "BigqueryError"])
          ELSE Return([typename |-> "dataset", projectId |-> project_id,
                       datasetId |-> dataset_id])
  IN  CASE parsed[1] = <<>> /\ parsed[2] = <<>> /\ parsed[3] # <<>> ->
             made(self.project_id, parsed[3])
        [] parsed[1] # <<>> /\ parsed[2] # <<>> /\ parsed[3] = <<>> ->
             made(parsed[1], parsed[2])
        [] identifier = <<>> -> made(self.project_id, self.dataset_id)
        [] OTHER -> Raise([kind |-> "BigqueryError"])

\* C23: GetDatasetReference returns the dataset named by the table part in
\* the client's project when only the table part is there, the dataset named
\* by the dataset part in the project part when these two are there and
\* the table part is not, and the client's own dataset for the empty
\* identifier; it raises BigqueryError for every other identifier, and for
\* these three when the project id or the dataset id is empty.
C23_ThreeShapes ==
  Called("GetDatasetReference") =>
     /\ outcome = ExpectedDataset(Get(call).identifier,
                                  ParseIdentifier(Get(call).identifier))
     /\ (pc = "returned") <=> (Get(outcome).type = "return")

\* The empty identifier is the client's own dataset.
C23_Witness ==
  /\ Called("GetDatasetReference") /\ pc = "returned"
  /\ Get(call).identifier = <<>>
  /\ Get(outcome).value =
       [typename |-> "dataset", projectId |-> <<"p">>, datasetId |-> <<"d">>]

\* What GetJobReference is to return or raise for the parts of an
\* identifier; the client's dataset id has no part in it.
ExpectedJob(parsed) ==
  LET made(project_id, job_id) ==
        IF project_id = <<>> \/ job_id = <<>>
          THEN Raise([kind |-> "BigqueryError"])
          ELSE Return([typename |-> "job", projectId |-> project_id,
                       jobId |-> job_id])
  IN  CASE parsed[1] = <<>> /\ parsed[2] = <<>> /\ parsed[3] # <<>> ->
             made(self.project_id, parsed[3])
        [] parsed[1] # <<>> /\ parsed[2] # <<>> /\ parsed[3] = <<>> ->
             made(parsed[1], parsed[2])
        [] OTHER -> Raise([kind |-> "BigqueryError"])

\* C24: GetJobReference returns the job named by the table part in the
\* client's project when only the table part is there, and the job named by
\* the dataset part in the project part when these two are there and the
\* table part is not; it raises BigqueryError for every other identifier, the
\* empty one among them, and the client's dataset id changes nothing.
C24_TwoShapes ==
  Called("GetJobReference") =>
     /\ outcome = ExpectedJob(ParseIdentifier(Get(call).identifier))
     /\ Get(call).identifier = <<>> => pc = "raised"
     /\ (ParseIdentifier(Get(call).identifier)[2] # <<>>
           /\ ParseIdentifier(Get(call).identifier)[3] # <<>>) => pc = "raised"

\* 'a:a' is the job 'a' of the project 'a' for a client with a project and a
\* dataset of its own.
C24_Witness ==
  /\ Called("GetJobReference") /\ pc = "returned"
  /\ Get(call).identifier = <<"a", ":", "a">>
  /\ self = [project_id |-> <<"p">>, dataset_id |-> <<"d">>]
  /\ Get(outcome).value =
       [typename |-> "job", projectId |-> <<"a">>, jobId |-> <<"a">>]

\* C25: GetTableReference returns the table named by the table part, in the
\* dataset part if there is one and the client's dataset id otherwise, in the
\* project part if there is one and the client's project id otherwise; it
\* raises BigqueryError when the table part is empty, and when the project
\* id or the dataset id so chosen is empty.
C25_TableOfIdentifier ==
  Called("GetTableReference") =>
     LET parsed == ParseIdentifier(Get(call).identifier)
         project_id == IF parsed[1] # <<>> THEN parsed[1] ELSE self.project_id
         dataset_id == IF parsed[2] # <<>> THEN parsed[2] ELSE self.dataset_id
     IN  /\ parsed[3] = <<>> => pc = "raised"
         /\ outcome =
              IF parsed[3] = <<>> \/ project_id = <<>> \/ dataset_id = <<>>
                THEN Raise([kind |-> "BigqueryError"])
                ELSE Return([typename |-> "table", projectId |-> project_id,
                             datasetId |-> dataset_id, tableId |-> parsed[3]])
         /\ pc = "returned" =>
              /\ parsed[1] # <<>> => Get(outcome).value.projectId = parsed[1]
              /\ parsed[2] # <<>> => Get(outcome).value.datasetId = parsed[2]

\* 'a.a' is the table 'a' of the dataset 'a', not of the client's dataset
\* 'd', in the client's project.
C25_Witness ==
  /\ Called("GetTableReference") /\ pc = "returned"
  /\ Get(call).identifier = <<"a", ".", "a">>
  /\ self = [project_id |-> <<"p">>, dataset_id |-> <<"d">>]
  /\ Get(outcome).value =
       [typename |-> "table", projectId |-> <<"p">>, datasetId |-> <<"a">>,
        tableId |-> <<"a">>]
\* C26: a call of WaitJob that runs at the same time as a call for another
\* job ends as it ends alone with the same answers to its polls, each taking
\* the same time, and the progress lines for its job are those it writes
\* alone; while it runs, its lines are the first of those.
C26_SameAsAlone ==
  \A i \in Waiters :
     hist.stage = Len(Stages) =>
        /\ Len(LinesOf(i)) <= Len(Get(hist.alone[i]).lines)
        /\ LinesOf(i) = SubSeq(Get(hist.alone[i]).lines, 1, Len(LinesOf(i)))
        /\ pc[i] \in {"returned", "raised"} =>
             /\ outcome[i] = Get(hist.alone[i]).outcome
             /\ LinesOf(i) = Get(hist.alone[i]).lines

\* Both calls have ended, the one for j1 with the job after a poll that
\* failed and took a tick, the one for j2 with StopIteration after a single
\* poll that took a tick of its wait of 0 seconds, and their lines are mixed
\* on standard output.
C26_Witness ==
  /\ hist.stage = Len(Stages)
  /\ call[1].wait = 1 /\ call[2].wait = 0
  /\ server_job[1][1].dur = 1 /\ server_job[2][1].dur = 1
  /\ requests = [i \in Waiters |-> IF i = 1 THEN 2 ELSE 1]
  /\ pc = [i \in Waiters |-> IF i = 1 THEN "returned" ELSE "raised"]
  /\ Get(outcome[2]).error.kind = "StopIteration"
  /\ Len(io) >= 3
  /\ io[1] = [job_id |-> "j1", seconds |-> 0, status |-> "UNKNOWN"]
  /\ io[2] = [job_id |-> "j2", seconds |-> 0, status |-> "RUNNING"]
  /\ io[3] = [job_id |-> "j1", seconds |-> 0, status |-> "DONE"]
\* A token that begins with 'gs://'.
IsGs(token) ==
  /\ Len(token) >= 5
  /\ token[1] = "g" /\ token[2] = "s" /\ token[3] = ":"
  /\ token[4] = "/" /\ token[5] = "/"

\* C27: with the source string read as its trimmed tokens between commas,
\* ProcessSources returns all the tokens when every one begins with 'gs://',
\* raises BigqueryClientError when some but not all do, and, when none does,
\* returns the one token if it is the only one and names a regular file that
\* exists and raises BigqueryClientError otherwise.
C27_SourcesOrError ==
  Called("ProcessSources") =>
     LET tokens == hist.tokens
         gs == { k \in 1..Len(tokens) : IsGs(tokens[k]) }
     IN  outcome =
           IF gs # {}
             THEN IF gs = 1..Len(tokens) THEN Return(tokens)
                  ELSE Raise([kind |-> "BigqueryClientError"])
           ELSE IF Len(tokens) = 1 /\ tokens[1] \in io.files
             THEN Return(tokens)
           ELSE Raise([kind |-> "BigqueryClientError"])

\* ' gs://a,gs:// ' is the list of 'gs://a' and 'gs://'.
C27_Witness ==
  /\ Called("ProcessSources") /\ pc = "returned"
  /\ Get(call).source_string =
       <<" ", "g", "s", ":", "/", "/", "a", ",", "g", "s", ":", "/", "/", " ">>
  /\ Get(outcome).value = << <<"g", "s", ":", "/", "/", "a">>,
                             <<"g", "s", ":", "/", "/">> >>
\* The caller's configuration, the dicts it refers to in place.
CallerConfiguration == Deep(wj, Ref(1))

\* C28: after StartJob has returned or raised, the caller's configuration has
\* the keys and values it had before; the configuration in the request body
\* has the caller's job type and parameters, and every other key of the
\* caller's but 'properties', which holds the client's job properties when it
\* has some and is the caller's otherwise.
C28_ConfigurationNotMutated ==
  Called("StartJob") =>
     /\ CallerConfiguration = hist.before
     /\ Has(requests.body) =>
          LET sent == Get(requests.body).configuration
          IN  /\ \A k \in DOMAIN hist.before \ {"properties"} :
                   k \in DOMAIN sent /\ sent[k] = hist.before[k]
              /\ DOMAIN sent \ {"properties"} = DOMAIN hist.before \ {"properties"}
              /\ self.job_property # <<>> =>
                   /\ "properties" \in DOMAIN sent
                   /\ \A n \in 1..Len(self.job_property) :
                        \E k \in DOMAIN sent.properties :
                           k = SubSeq(self.job_property[n], 1, Len(k))
              /\ self.job_property = <<>> =>
                   /\ "properties" \in DOMAIN sent <=> "properties" \in DOMAIN hist.before
                   /\ "properties" \in DOMAIN sent =>
                        sent.properties = hist.before.properties

\* StartJob has sent the properties k=v of the client with a load
\* configuration that has none, and the caller's configuration has none.
C28_Witness ==
  /\ Called("StartJob") /\ pc = "returned"
  /\ self.job_property = << <<"k", "=", "v">> >>
  /\ DOMAIN hist.before = {"load"}
  /\ DOMAIN CallerConfiguration = {"load"}
  /\ Has(requests.body)
  /\ Get(requests.body).configuration.properties = [k \in {<<"k">>} |-> [str |-> <<"v">>]]
  /\ Get(requests.body).configuration.load = [k \in {"sourceUri"} |-> [str |-> "u"]]
\* C29: a call of WaitJob with a finite wait that has entered its loop
\* returns or raises in the end, whatever the polls give, when every poll
\* returns or raises and every sleep returns.
\* Back at the head of the loop after a poll, the call has slept at least
\* once and the clock is at least a second past the elapsed time it holds.
C29_FiniteWaitTerminates ==
  /\ (pc \in {"WaitJob", "sleep", "Done"} /\ Get(wj).wait < maxint)
        ~> (pc \in {"returned", "raised"} /\ Get(call).op = "WaitJob")
  /\ [](pc = "WaitJob" /\ requests.polls > 0 =>
          /\ hist.slept >= 1
          /\ now >= Get(wj).current_wait + TicksPerSecond)

\* A wait of LiveWait seconds has run out after more than eight polls, the
\* last of them more than a second after the one before.
C29_Witness ==
  /\ TimedOut
  /\ Get(call).op = "WaitJob"
  /\ Get(wj).wait = LiveWait
  /\ Get(wj).waits_pos > 8
  /\ Get(wj).current_wait > LiveWait * TicksPerSecond
\* The number of rows of a sequence of pages.
RowsIn(pages) ==
  LET RECURSIVE count(_)
      count(n) == IF n = 0 THEN 0 ELSE pages[n].n + count(n - 1)
  IN  count(Len(pages))

\* The rows asked for, or the rows of the table if these are fewer.
Wanted ==
  IF Get(call).max_rows <= server_job.totalRows THEN Get(call).max_rows
  ELSE server_job.totalRows

\* Every request asks for the rows from the number of rows read so far on,
\* no page has more rows than asked for, and only the last request is
\* answered with no rows; the rows read are never more than max_rows; an
\* error is BigqueryInterfaceError, raised after a page with no rows.
Paging ==
  /\ \A n \in 1..Len(hist.requests) :
       /\ hist.requests[n].startIndex = RowsIn(SubSeq(hist.requests, 1, n - 1))
       /\ hist.requests[n].n <= hist.requests[n].maxResults
       /\ hist.requests[n].n = 0 => n = Len(hist.requests)
  /\ Has(wj) => RowsIn(Get(wj).rows) <= Get(call).max_rows
  /\ pc = "raised" =>
       /\ Get(outcome).error.kind = "BigqueryInterfaceError"
       /\ hist.requests[Len(hist.requests)].n = 0
       /\ RowsIn(Get(wj).rows) < Wanted
  /\ (hist.requests # <<>> /\ hist.requests[Len(hist.requests)].n = 0
        /\ RowsIn(Get(wj).rows) < Wanted) => pc = "raised"

\* C30 as stated: whenever the server reports the same totalRows in every
\* answer and answers with no more rows than maxResults, a call of
\* ReadTableRows that returns, returns min(max_rows, totalRows) rows.
C30_ExactlyMinRows ==
  /\ Paging
  /\ (Called("ReadTableRows") /\ pc = "returned") =>
        RowsIn(Get(outcome).value) = Wanted

\* C30: when, besides, no page goes past totalRows, a call of ReadTableRows
\* that returns, returns min(max_rows, totalRows) rows, the rows of the table
\* from the first on; in any case every request starts at the number of rows
\* read so far, the rows read are never more than max_rows, and a page with
\* no rows before the count is reached raises BigqueryInterfaceError.
C30_ExactlyMinRowsOfTable ==
  /\ Paging
  /\ (Called("ReadTableRows") /\ pc = "returned" /\ hist.within) =>
        /\ RowsIn(Get(outcome).value) = Wanted
        /\ \A n \in 1..Len(Get(outcome).value) :
             Get(outcome).value[n].start = RowsIn(SubSeq(Get(outcome).value, 1, n - 1))

\* 20001 rows of a table of 20003 rows, read in three pages of 10000, 10000
\* and 1 rows.
C30_Witness ==
  /\ Called("ReadTableRows") /\ pc = "returned"
  /\ Get(call).max_rows = 2 * PageCap + 1
  /\ server_job.totalRows = 2 * PageCap + 3
  /\ Get(outcome).value = << [start |-> 0, n |-> PageCap],
                             [start |-> PageCap, n |-> PageCap],
                             [start |-> 2 * PageCap, n |-> 1] >>
====
